---- MODULE Spec2Model ----
(***************************************************************************)
(* The streaming chat client of the food-ordering assistant: the           *)
(* useChatStream hook (hooks/chatStream/index.js), its event processors    *)
(* (eventProcessors, toolEventHandlers, conversationManager) and the       *)
(* per-tool message tables (toolMessages.js).                              *)
(*                                                                         *)
(* JavaScript values are modelled as follows.  A string is a TLA+ string;  *)
(* an absent (undefined) string is NONE.  An object is a record that has   *)
(* exactly the fields the object has; an absent object is Undef and null   *)
(* is Null.  An array of which only the length is read is its length.      *)
(* The rawEvent field of a tool record (a debugging copy of the event) is  *)
(* left out.                                                               *)
(***************************************************************************)
EXTENDS Integers, Sequences, FiniteSets, TLC

\* ------------------------------------------------------------------ bounds
\* Calls of sendMessage in one behaviour.
MaxTurns == 2
\* Lines the producer writes in one behaviour, over all turns.
MaxFrames == 3
\* Whole lines the transport may deliver in one chunk.
MaxChunkLines == 2

\* ------------------------------------------------------------------ state
VARIABLES
    \* the React state of useChatStream
    isLoading, thinking, toolExecution, toolHistory, processCollapsed,
    messages, messageToolHistory, conversationId, error,
    \* the sendMessage call in flight, or the last one: where it stands (pc),
    \* its closure (clo), its locals, and the history fields of Observe
    turn,
    \* grace timers set by processDoneEvent and not yet fired
    timers,
    \* the next fresh id (Date.now() and Math.random() of the tool records),
    \* and the next message id (Date.now() of the message)
    nextId, nextMessageId,
    \* the response stream: the rest of a line the transport has cut (tail),
    \* the text delivered so far in this turn (wire), the lines written in all
    \* turns (frames); and whether a loadConversation call awaits its
    \* response (load)
    net,
    \* what the producer can write: its lines, how many of them in all
    \* (frames), whether the transport cuts lines (cuts), and whether the
    \* history of the stream is kept (log)
    producer,
    \* history: every append of an assistant or error message (appended), the
    \* requests issued per turn (requests),
    \* the data lines of the last chunk (lastChunk); decoded, wire and lastChunk
    \* are kept only under a producer with log set
    obs,
    \* the SwiggyAPIClient.makeRequest call of the MCP server: where it
    \* stands (pc), its url and retryCount, the outcomes of its HTTP attempts
    \* (attempts), the waits before its retries (waits), what it returned
    \* (result), and the calls made so far (calls)
    request

vars == << isLoading, thinking, toolExecution, toolHistory, processCollapsed,
           messages, messageToolHistory, conversationId, error,
           turn, timers, nextId, nextMessageId, net, producer, obs, request >>

\* ------------------------------------------------------------ JS values
NONE == "undefined"
Undef == [js |-> "undefined"]
Null == [js |-> "null"]
NoId == 0

\* if (s) for a string-valued s
Truthy(s) == s # NONE /\ s # ""
\* o.k and o?.k for a string-valued field
GetS(o, k) == IF k \in DOMAIN o THEN o[k] ELSE NONE
\* o.k for an object-valued field
GetO(o, k) == IF k \in DOMAIN o THEN o[k] ELSE Undef
\* a || b on strings
OrS(a, b) == IF Truthy(a) THEN a ELSE b
\* output.results.length, 0 when output or output.results is absent
ResultsLen(output) == IF "results" \in DOMAIN output THEN output.results ELSE 0

\* The tool names of the model.
ToolNames == {"search_restaurants", "search_food_items", "get_restaurant_menu",
              "get_order_details", "initiate_refund", "Unknown Tool"}

\* ------------------------------------------------------- toolMessages.js
\* formatToolName: '_' -> ' ', a space before each capital, lower case, the
\* first character upper-cased when it is a word character.  Tabulated for the
\* names of the model: "Unknown Tool" becomes " Unknown  Tool", then
\* " unknown  tool", whose first character is a space, so nothing is capitalised.
formatToolName(toolName) ==
    CASE toolName = "search_restaurants" -> "Search restaurants"
      [] toolName = "search_food_items" -> "Search food items"
      [] toolName = "get_restaurant_menu" -> "Get restaurant menu"
      [] toolName = "get_order_details" -> "Get order details"
      [] toolName = "initiate_refund" -> "Initiate refund"
      [] toolName = "Unknown Tool" -> " unknown  tool"
      [] OTHER -> toolName

getToolCompletionMessage(toolName, input, output) ==
    IF ~Truthy(toolName) THEN NONE
    ELSE CASE toolName = "search_restaurants" ->
                IF ResultsLen(output) > 0
                THEN "Found " \o ToString(ResultsLen(output))
                     \o " restaurants matching \""
                     \o OrS(GetS(input, "query"), "restaurants") \o "\""
                ELSE "Completed search for \""
                     \o OrS(GetS(input, "query"), "restaurants") \o "\""
           [] toolName = "search_food_items" ->
                IF ResultsLen(output) > 0
                THEN "Found " \o ToString(ResultsLen(output))
                     \o " menu items matching \""
                     \o OrS(GetS(input, "query"), "food items") \o "\""
                ELSE "Completed search for \""
                     \o OrS(GetS(input, "query"), "food items") \o "\""
           [] toolName = "get_restaurant_menu" -> "Received restaurant menu"
           [] toolName = "get_order_details" ->
                "Retrieved details for " \o OrS(GetS(input, "order_id"), "your order")
           [] toolName = "initiate_refund" -> "Refund request processed"
           [] OTHER -> formatToolName(toolName) \o " completed!"

getFriendlyToolDescription(toolName, input) ==
    IF ~Truthy(toolName) THEN NONE
    ELSE CASE toolName = "search_restaurants" ->
                "Searching for " \o OrS(GetS(input, "query"), "restaurants") \o " nearby..."
           [] toolName = "search_food_items" ->
                "Finding \"" \o OrS(GetS(input, "query"), "food items") \o "\" on the menu..."
           [] toolName = "get_restaurant_menu" -> "Looking up menu for restaurant..."
           [] toolName = "get_order_details" ->
                "Retrieving details for " \o OrS(GetS(input, "order_id"), "your order") \o "..."
           [] toolName = "initiate_refund" ->
                "Processing refund request for "
                \o OrS(GetS(input, "order_id"), "your order") \o "..."
           [] toolName = "unknown_tool" -> "Processing your request..."
           [] OTHER ->
                IF Truthy(GetS(input, "query"))
                THEN formatToolName(toolName) \o " for \"" \o input.query \o "\"..."
                ELSE formatToolName(toolName) \o "..."

\* ---------------------------------------------------- the events' texts
\* data.data.match(/Using ([a-zA-Z0-9_]+)/), on the data strings of the model
MatchUsing(s) ==
    IF s = "Using get_restaurant_menu" THEN "get_restaurant_menu" ELSE NONE
\* data.data.match(/Tool ([a-zA-Z0-9_]+) completed/)
MatchCompleted(s) ==
    IF s = "Tool get_order_details completed!" THEN "get_order_details" ELSE NONE
\* data.data.match(/Error executing ([a-zA-Z0-9_]+)/)
MatchErrorExecuting(s) ==
    IF s = "Error executing search_restaurants" THEN "search_restaurants" ELSE NONE

\* { ...r, ...upd }
Merge(r, upd) ==
    [k \in DOMAIN r \cup DOMAIN upd |-> IF k \in DOMAIN upd THEN upd[k] ELSE r[k]]
\* lastTool.id, absent on a record that was made without one
GetId(r) == IF "id" \in DOMAIN r THEN r.id ELSE NoId
EmptyObj == [js |-> "{}"]
Last(q) == q[Len(q)]

\* ------------------------------------- toolEventHandlers: processToolStart
\* The state the event processors read and write is the record s: the React
\* state they set (thinking, toolExecution, toolHistory, processCollapsed,
\* conversationId), the pending grace timers, the locals of sendMessage
\* (thinkingText, responseText, structuredDataItems, currentToolHistory,
\* reasoningSteps) and the source of fresh ids, nextId.
ToolStartName(data) ==
    IF Truthy(GetS(data, "tool_name")) THEN data.tool_name
    ELSE IF Truthy(GetS(GetO(data, "input"), "tool")) THEN data.input.tool
    ELSE IF Truthy(MatchUsing(GetS(data, "data"))) THEN MatchUsing(data.data)
    ELSE "Unknown Tool"

processToolStart(data, s) ==
    LET toolName == ToolStartName(data)
        newTool == [id |-> s.nextId,
                    toolName |-> toolName,
                    status |-> "started",
                    data |-> OrS(getFriendlyToolDescription(toolName, GetO(data, "input")),
                                 GetS(data, "data")),
                    originalData |-> GetS(data, "data"),
                    input |-> GetO(data, "input")]
        updatedToolHistory == Append(s.currentToolHistory, newTool)
    IN  [s EXCEPT !.currentToolHistory = updatedToolHistory,
                  !.toolHistory = updatedToolHistory,
                  !.processCollapsed = FALSE,
                  !.toolExecution = newTool,
                  !.nextId = @ + 1]

\* --------------------------------------- toolEventHandlers: processToolEnd
ToolEndName(data, currentToolHistory) ==
    IF Len(currentToolHistory) > 0 THEN Last(currentToolHistory).toolName
    ELSE IF Truthy(GetS(data, "tool_name")) THEN data.tool_name
    ELSE IF Truthy(MatchCompleted(GetS(data, "data"))) THEN MatchCompleted(data.data)
    ELSE "Unknown Tool"

processToolEnd(data, s) ==
    LET h == s.currentToolHistory
        has == Len(h) > 0
        toolName == ToolEndName(data, h)
        originalToolData == IF has THEN GetS(Last(h), "originalData") ELSE NONE
        toolInput == IF has THEN GetO(Last(h), "input") ELSE Null
        toolId == IF has THEN GetId(Last(h)) ELSE NoId
        completionMsg == getToolCompletionMessage(toolName, toolInput, GetO(data, "output"))
        updatedToolHistory ==
            IF has
            THEN [h EXCEPT ![Len(h)] =
                     Merge(@, [status |-> "completed",
                               data |-> OrS(completionMsg, GetS(data, "data")),
                               originalData |-> originalToolData,
                               output |-> GetO(data, "output")])]
            ELSE h
    IN  [s EXCEPT !.currentToolHistory = updatedToolHistory,
                  !.toolHistory = IF has THEN updatedToolHistory ELSE @,
                  !.toolExecution = [id |-> toolId,
                                     toolName |-> toolName,
                                     status |-> "completed",
                                     data |-> OrS(completionMsg, GetS(data, "data")),
                                     originalData |-> originalToolData,
                                     output |-> GetO(data, "output")]]

\* ToolErrorName without its last fallback.
ToolErrorName_NoFallback(data, currentToolHistory) ==
    IF Truthy(GetS(data, "tool_name")) THEN data.tool_name
    ELSE IF Len(currentToolHistory) > 0 THEN Last(currentToolHistory).toolName
    ELSE MatchErrorExecuting(GetS(data, "data"))

\* ------------------------------------- toolEventHandlers: processToolError
ToolErrorName(data, currentToolHistory) ==
    IF Truthy(GetS(data, "tool_name")) THEN data.tool_name
    ELSE IF Len(currentToolHistory) > 0 THEN Last(currentToolHistory).toolName
    ELSE IF Truthy(MatchErrorExecuting(GetS(data, "data")))
         THEN MatchErrorExecuting(data.data)
    ELSE "Unknown Tool"

processToolError(data, s) ==
    LET h == s.currentToolHistory
        toolName == ToolErrorName(data, h)
        updatedToolHistory ==
            IF Len(h) > 0
            THEN [h EXCEPT ![Len(h)] =
                     Merge(@, [status |-> "error",
                               error |-> GetS(data, "data"),
                               output |-> GetO(data, "output")])]
            ELSE << [toolName |-> toolName,
                     status |-> "error",
                     error |-> GetS(data, "data"),
                     output |-> GetO(data, "output")] >>
        updatedThinkingText ==
            IF Truthy(GetS(data, "data"))
            THEN s.thinkingText \o "\n\n" \o data.data
            ELSE s.thinkingText
    IN  [s EXCEPT !.currentToolHistory = updatedToolHistory,
                  !.toolHistory = updatedToolHistory,
                  !.toolExecution = [toolName |-> toolName,
                                     status |-> "error",
                                     data |-> GetS(data, "data"),
                                     output |-> GetO(data, "output")],
                  !.thinkingText = updatedThinkingText,
                  !.thinking = IF Truthy(GetS(data, "data"))
                               THEN updatedThinkingText ELSE @]

\* processDoneEvent that sets the conversation id whatever the event holds.
processDoneEvent_Unguarded(data, toolExecutionArg, s) ==
    [s EXCEPT !.conversationId = GetS(data, "conversation_id"),
              !.processCollapsed = TRUE,
              !.toolExecution = Null]

\* ------------------------------------- toolEventHandlers: processDoneEvent
\* toolExecutionArg is the toolExecution sendMessage passes: the value its
\* closure holds, not the state the setters have written since.
processDoneEvent(data, toolExecutionArg, s) ==
    LET s1 == IF Truthy(GetS(data, "conversation_id"))
              THEN [s EXCEPT !.conversationId = data.conversation_id]
              ELSE s
    IN  IF GetS(toolExecutionArg, "status") \in {"completed", "error"}
        THEN \* setTimeout(() => { setProcessCollapsed(true); setToolExecution(null) }, 3000)
             [s1 EXCEPT !.timers = @ + 1]
        ELSE [s1 EXCEPT !.processCollapsed = TRUE, !.toolExecution = Null]

\* processAgentAction with the new record put first in the timeline.
processAgentAction_Prepend(data, s) ==
    IF Truthy(GetS(data, "tool_name"))
    THEN LET newTool == [id |-> s.nextId,
                         toolName |-> data.tool_name,
                         status |-> "started",
                         data |-> "Using " \o data.tool_name \o "...",
                         input |-> GetO(data, "input"),
                         originalData |-> GetS(data, "data")]
             updatedToolHistory == << newTool >> \o s.currentToolHistory
         IN  [s EXCEPT !.currentToolHistory = updatedToolHistory,
                       !.toolHistory = updatedToolHistory,
                       !.processCollapsed = FALSE,
                       !.toolExecution = newTool,
                       !.nextId = @ + 1]
    ELSE s

\* processAgentAction adding its record to the live timeline with a
\* functional update, next to a preliminary record already there.
processAgentAction_Appended(data, s) ==
    IF Truthy(GetS(data, "tool_name"))
    THEN LET toolName == data.tool_name
             toolInput == IF "input" \in DOMAIN data THEN data.input ELSE EmptyObj
             newTool == [id |-> s.nextId,
                         toolName |-> toolName,
                         status |-> "started",
                         data |-> OrS(getFriendlyToolDescription(toolName, toolInput),
                                      OrS(GetS(data, "data"),
                                          "Using " \o toolName \o "...")),
                         input |-> toolInput,
                         originalData |-> GetS(data, "data")]
         IN  [s EXCEPT !.currentToolHistory = Append(@, newTool),
                       !.toolHistory = Append(@, newTool),
                       !.processCollapsed = FALSE,
                       !.toolExecution = newTool,
                       !.nextId = @ + 1]
    ELSE s

\* ------------------------------------ eventProcessors: processAgentAction
processAgentAction(data, s) ==
    IF Truthy(GetS(data, "tool_name"))
    THEN LET toolName == data.tool_name
             toolInput == IF "input" \in DOMAIN data THEN data.input ELSE EmptyObj
             newTool == [id |-> s.nextId,
                         toolName |-> toolName,
                         status |-> "started",
                         data |-> OrS(getFriendlyToolDescription(toolName, toolInput),
                                      OrS(GetS(data, "data"),
                                          "Using " \o toolName \o "...")),
                         input |-> toolInput,
                         originalData |-> GetS(data, "data")]
             updatedToolHistory == Append(s.currentToolHistory, newTool)
         IN  [s EXCEPT !.currentToolHistory = updatedToolHistory,
                       !.toolHistory = updatedToolHistory,
                       !.processCollapsed = FALSE,
                       !.toolExecution = newTool,
                       !.nextId = @ + 1]
    ELSE s

\* ---------------------------------- eventProcessors: processReasoningStep
\* The thoughts of the model, and what the patterns of processReasoningStep
\* find in them.
ThoughtPlain == "I will check the menu."
ThoughtToolUse ==
    "I will check the menu.', 'type': 'tool_use', 'name': 'get_restaurant_menu'"

\* The name captured by /['"]name['"]: ['"]([^'"]+)['"]/ when the thought
\* includes 'type': 'tool_use'; NONE otherwise.
ThoughtToolName(thought) ==
    IF thought = ThoughtToolUse THEN "get_restaurant_menu" ELSE NONE
\* The input parsed from partial_json / input; {} when there is none.
ThoughtToolInput(thought) == EmptyObj
\* The thought cut at the first JSON marker ("', '", "}, {", ...) and trimmed.
CleanThought(thought) ==
    IF thought = ThoughtToolUse THEN "I will check the menu." ELSE thought

processReasoningStep(data, s) ==
    LET thought == data.data.thought
        toolName == ThoughtToolName(thought)
        toolInput == ThoughtToolInput(thought)
        prelimTool == [id |-> s.nextId,
                       toolName |-> toolName,
                       status |-> "started",
                       data |-> OrS(getFriendlyToolDescription(toolName, toolInput),
                                    "Using " \o toolName \o "..."),
                       input |-> toolInput]
        s1 == [s EXCEPT !.reasoningSteps = Append(@, data.data)]
        s2 == IF Truthy(toolName)
              THEN [s1 EXCEPT !.toolHistory = Append(@, prelimTool),
                              !.processCollapsed = FALSE,
                              !.toolExecution = prelimTool,
                              !.nextId = @ + 1]
              ELSE s1
        updatedThinkingText ==
            s.thinkingText \o "\n\nStep " \o ToString(data.data.step) \o ": "
            \o CleanThought(thought)
    IN  [s2 EXCEPT !.thinkingText = updatedThinkingText,
                   !.thinking = updatedThinkingText]

\* ------------------------------ structuredDataProcessor: detectStructuredData
\* A payload is a record of string fields; its fields data, restaurant and
\* food_item, when present, are objects.
ObjectFields == {"data", "restaurant", "food_item"}
\* if (p.k)
Has(p, k) == k \in DOMAIN p /\ (k \in ObjectFields \/ Truthy(p[k]))
\* p.k !== undefined, and hasOwnProperty
Defined(p, k) == k \in DOMAIN p

\* The rules with the food-item shape tried before the restaurant shape.
detectStructuredData_FoodFirst(data) ==
    IF Has(data, "type") /\ Has(data, "data") THEN data
    ELSE IF \/ Defined(data, "verification_score")
            \/ Defined(data, "verification_status")
            \/ (Defined(data, "recommendation") /\ Defined(data, "flagged_issues"))
         THEN [type |-> "image_verification_result", data |-> data]
    ELSE IF /\ (Has(data, "workflow_id") \/ Has(data, "current_state"))
            /\ \/ Defined(data, "current_stage")
               \/ /\ Defined(data, "stage")
                  /\ (Defined(data, "order_id") \/ Has(data, "reason_category"))
         THEN [type |-> "refund_workflow_state", data |-> data]
    ELSE IF Has(data, "name") /\ (Has(data, "price") \/ Has(data, "description"))
         THEN [type |-> "food_item", data |-> data]
    ELSE IF Has(data, "name") /\ (Has(data, "cuisine") \/ Has(data, "rating"))
         THEN [type |-> "restaurant", data |-> data]
    ELSE IF Has(data, "restaurant")
         THEN [type |-> "restaurant", data |-> data.restaurant]
    ELSE IF Has(data, "food_item")
         THEN [type |-> "food_item", data |-> data.food_item]
    ELSE IF Defined(data, "rating") \/ Defined(data, "cuisine")
         THEN [type |-> "restaurant", data |-> data]
    ELSE IF Defined(data, "price")
         THEN [type |-> "food_item", data |-> data]
    ELSE data

detectStructuredData(data) ==
    IF Has(data, "type") /\ Has(data, "data") THEN data
    ELSE IF \/ Defined(data, "verification_score")
            \/ Defined(data, "verification_status")
            \/ (Defined(data, "recommendation") /\ Defined(data, "flagged_issues"))
         THEN [type |-> "image_verification_result", data |-> data]
    ELSE IF /\ (Has(data, "workflow_id") \/ Has(data, "current_state"))
            /\ \/ Defined(data, "current_stage")
               \/ /\ Defined(data, "stage")
                  /\ (Defined(data, "order_id") \/ Has(data, "reason_category"))
         THEN [type |-> "refund_workflow_state", data |-> data]
    ELSE IF Has(data, "name") /\ (Has(data, "cuisine") \/ Has(data, "rating"))
         THEN [type |-> "restaurant", data |-> data]
    ELSE IF Has(data, "name") /\ (Has(data, "price") \/ Has(data, "description"))
         THEN [type |-> "food_item", data |-> data]
    ELSE IF Has(data, "restaurant")
         THEN [type |-> "restaurant", data |-> data.restaurant]
    ELSE IF Has(data, "food_item")
         THEN [type |-> "food_item", data |-> data.food_item]
    ELSE IF Defined(data, "rating") \/ Defined(data, "cuisine")
         THEN [type |-> "restaurant", data |-> data]
    ELSE IF Defined(data, "price")
         THEN [type |-> "food_item", data |-> data]
    ELSE data

\* eventProcessors: processStructuredData
processStructuredData(data, s) ==
    IF "data" \in DOMAIN data
    THEN [s EXCEPT !.structuredDataItems = Append(@, detectStructuredData(data.data))]
    ELSE s

\* structuredDataProcessor: processStructuredData, imported as formatStructuredData
FormatItem(item) ==
    IF Has(item, "type") /\ Has(item, "data") THEN item
    ELSE IF ~Has(item, "type") /\ Has(item, "data")
         THEN IF Has(item.data, "name") /\ (Has(item.data, "price") \/ Has(item.data, "menu"))
              THEN [type |-> "food_item", data |-> item.data]
              ELSE IF Has(item.data, "name") /\ Has(item.data, "rating")
                   THEN [type |-> "restaurant", data |-> item.data]
                   ELSE item
         ELSE item

formatStructuredData(structuredDataItems) ==
    [i \in 1..Len(structuredDataItems) |-> FormatItem(structuredDataItems[i])]

\* ------------------------------------------- index.js: the event dispatch
\* switch (data.type) of sendMessage.  clo is the closure of the sendMessage
\* call: the toolHistory and toolExecution of the render that created it.
Dispatch(data, clo, s) ==
    LET type == GetS(data, "type") IN
    CASE type = "thinking" ->
           [s EXCEPT !.thinkingText = @ \o GetS(data, "data"),
                     !.thinking = s.thinkingText \o GetS(data, "data")]
      [] type = "reasoning_step" -> processReasoningStep(data, s)
      [] type = "agent_action" -> processAgentAction(data, s)
      [] type = "message" -> [s EXCEPT !.responseText = GetS(data, "data")]
      [] type = "structured_data" -> processStructuredData(data, s)
      [] type = "tool_start" -> processToolStart(data, s)
      [] type = "tool_end" -> processToolEnd(data, s)
      [] type = "tool_error" -> processToolError(data, s)
      [] type = "done" -> processDoneEvent(data, clo.toolExecution, s)
      [] OTHER -> s

\* What a run of the dispatch leaves in the history fields of s, which the
\* program does not read: the events decoded so far in the turn (decoded), the
\* ids given to the records of its agent_action and tool_start events
\* (startLog), and for each done event its conversation_id, the live
\* execution before and after it and whether it set a timer (doneLog).
Observe(data, s, s1) ==
    LET type == GetS(data, "type") IN
    [s1 EXCEPT !.decoded = IF producer.log THEN Append(@, data) ELSE @,
               !.startLog = IF type \in {"agent_action", "tool_start"}
                               /\ s1.nextId > s.nextId
                            THEN Append(@, s.nextId) ELSE @,
               !.doneLog = IF type = "done"
                           THEN Append(@, [id |-> GetS(data, "conversation_id"),
                                           before |-> s.toolExecution,
                                           after |-> s1.toolExecution,
                                           collapsed |-> s1.processCollapsed,
                                           timerSet |-> s1.timers > s.timers])
                           ELSE @]

\* ------------------------------------------- index.js: the frame reader
\* The text of the stream is a sequence of tokens: the "data: " prefix, the
\* text of one JSON value (an opening brace, its members, a closing brace), a
\* line feed, or text that is no JSON.
TokPrefix == [c |-> "data: "]
TokOpen == [c |-> "{"]
TokMembers(e) == [c |-> "members", v |-> e]
TokClose == [c |-> "}"]
TokNL == [c |-> "\n"]
TokJunk == [c |-> "junk"]

\* The line the producer writes for event e, and a data line that is no JSON.
FrameOf(e) == << TokPrefix, TokOpen, TokMembers(e), TokClose, TokNL >>
BadFrame == << TokPrefix, TokJunk, TokNL >>

\* chunk.split('\n')
RECURSIVE Split(_)
Split(chunk) ==
    IF \E i \in 1..Len(chunk) : chunk[i].c = "\n"
    THEN LET i == CHOOSE j \in 1..Len(chunk) :
                    /\ chunk[j].c = "\n"
                    /\ \A k \in 1..(j - 1) : chunk[k].c # "\n"
         IN  << SubSeq(chunk, 1, i - 1) >> \o Split(SubSeq(chunk, i + 1, Len(chunk)))
    ELSE << chunk >>

\* line.trim().startsWith('data: '): the prefix, and text after it that trim
\* leaves
IsDataLine(line) == Len(line) > 1 /\ line[1].c = "data: "
\* .filter(line => line.trim().startsWith('data: '))
DataLines(chunk) == SelectSeq(Split(chunk), IsDataLine)
\* JSON.parse(line.substring(6)) returns a value: the rest of the line is the
\* whole text of one JSON object
Parses(line) ==
    /\ Len(line) = 4
    /\ line[2].c = "{" /\ line[3].c = "members" /\ line[4].c = "}"
JSONParse(line) == line[3].v

\* A loop body whose parse failure leaves the try.
HandleLine_Rethrow(line, clo, s) ==
    IF Parses(line)
    THEN Observe(JSONParse(line), s, Dispatch(JSONParse(line), clo, s))
    ELSE [s EXCEPT !.thrown = TRUE]

\* The body of "for (const line of lines)": try { parse, dispatch } catch
\* { console.error }.  Nothing leaves the try, so thrown stays FALSE.
HandleLine(line, clo, s) ==
    IF Parses(line)
    THEN Observe(JSONParse(line), s, Dispatch(JSONParse(line), clo, s))
    ELSE s

RECURSIVE ProcessLines(_, _, _)
ProcessLines(lines, clo, s) ==
    IF Len(lines) = 0 \/ s.thrown THEN s
    ELSE ProcessLines(Tail(lines), clo, HandleLine(Head(lines), clo, s))

\* ------------------------------------------------- conversationManager.js
\* The field turn of a message is not the program's: it names the sendMessage
\* call that appended it.  Timestamps are left out.
formatUserMessage(messageText, n) ==
    [text |-> messageText, isUser |-> TRUE, image |-> Null, turn |-> n]

\* reasoningSteps: null is written << >>, which is what it stands for here
\* (the steps when there are some, null when there are none).
formatAgentResponse(responseText, structuredDataItems, reasoningSteps, history, id, n) ==
    [id |-> id,
     text |-> responseText,
     isUser |-> FALSE,
     structuredData |-> structuredDataItems,
     hasToolUse |-> Len(history) > 0,
     reasoningSteps |-> reasoningSteps,
     turn |-> n]

formatErrorMessage(errorMessage, n) ==
    [text |-> OrS(errorMessage, "Sorry, I encountered an error. Please try again."),
     isUser |-> FALSE,
     error |-> TRUE,
     turn |-> n]

\* The record the event processors work on, before a chunk.
StateOf ==
    [thinking |-> thinking,
     toolExecution |-> toolExecution,
     toolHistory |-> toolHistory,
     processCollapsed |-> processCollapsed,
     conversationId |-> conversationId,
     timers |-> timers,
     nextId |-> nextId,
     thinkingText |-> turn.thinkingText,
     responseText |-> turn.responseText,
     structuredDataItems |-> turn.structuredDataItems,
     currentToolHistory |-> turn.currentToolHistory,
     reasoningSteps |-> turn.reasoningSteps,
     decoded |-> turn.decoded,
     startLog |-> turn.startLog,
     doneLog |-> turn.doneLog,
     thrown |-> FALSE]

NoTurn ==
    [pc |-> "idle", no |-> 0, outcome |-> "none",
     clo |-> [toolHistory |-> << >>, toolExecution |-> Null],
     thinkingText |-> "", responseText |-> "", structuredDataItems |-> << >>,
     currentToolHistory |-> << >>, reasoningSteps |-> << >>,
     decoded |-> << >>, startLog |-> << >>, doneLog |-> << >>,
     firstId |-> 1, cleared |-> FALSE]

\* useState(...) of useChatStream
\* No makeRequest call yet.
NoRequest ==
    [pc |-> "idle", url |-> NONE, retryCount |-> 0, attempts |-> << >>,
     waits |-> << >>, result |-> Undef, calls |-> 0]

Init0 ==
    /\ isLoading = FALSE
    /\ thinking = ""
    /\ toolExecution = Null
    /\ toolHistory = << >>
    /\ processCollapsed = FALSE
    /\ messages = << >>
    /\ messageToolHistory = << >>
    /\ conversationId = NONE
    /\ error = NONE
    /\ turn = NoTurn
    /\ timers = 0
    /\ nextId = 1
    /\ nextMessageId = 1
    /\ net = [tail |-> << >>, wire |-> << >>, frames |-> 0, load |-> FALSE]
    /\ obs = [appended |-> << >>, requests |-> << >>,
              lastChunk |-> << >>, lastLoad |-> Null,
              render |-> [text |-> NONE, parts |-> << >>],
              cards |-> [of |-> 0, elements |-> << >>],
              blank |-> 0]
    /\ request = NoRequest

\* ----------------------------------------------------------- sendMessage
\* sendMessage(messageText) with non-blank text, up to "await fetch".  One
\* turn is in flight at a time.
SendMessage ==
    /\ turn.pc = "idle"
    /\ turn.no < MaxTurns
    /\ messages' = Append(messages, formatUserMessage("hi", turn.no + 1))
    /\ isLoading' = TRUE
    /\ thinking' = ""
    /\ error' = NONE
    /\ turn' = [NoTurn EXCEPT !.pc = "fetching",
                              !.no = turn.no + 1,
                              !.clo = [toolHistory |-> toolHistory,
                                       toolExecution |-> toolExecution],
                              !.firstId = nextId]
    /\ obs' = [obs EXCEPT !.requests = Append(@, 1)]
    /\ UNCHANGED << toolExecution, toolHistory, processCollapsed, messageToolHistory,
                    conversationId, timers, nextId, nextMessageId, net, producer, request >>

\* A catch that sets the error and appends nothing.
Catch_Silent(errMessage) ==
    /\ error' = OrS(errMessage, "Failed to send message")
    /\ isLoading' = FALSE
    /\ thinking' = ""
    /\ UNCHANGED << messages, obs >>

\* catch (err) { setError; setMessages(prev => [...prev, formatErrorMessage]) }
\* finally { setIsLoading(false); setThinking('') }
Catch(errMessage) ==
    /\ error' = OrS(errMessage, "Failed to send message")
    /\ messages' = Append(messages, formatErrorMessage(errMessage, turn.no))
    /\ isLoading' = FALSE
    /\ thinking' = ""
    /\ obs' = [obs EXCEPT !.appended =
                  Append(@, [turn |-> turn.no, error |-> TRUE, id |-> NoId])]

\* fetch rejects
FetchReject ==
    /\ turn.pc = "fetching"
    /\ Catch("Failed to fetch")
    /\ turn' = [turn EXCEPT !.pc = "idle", !.outcome = "failed"]
    /\ UNCHANGED << toolExecution, toolHistory, processCollapsed, messageToolHistory,
                    conversationId, timers, nextId, nextMessageId, net, producer, request >>

\* if (!response.ok) throw
FetchNotOk ==
    /\ turn.pc = "fetching"
    /\ Catch("API request failed with status 500")
    /\ turn' = [turn EXCEPT !.pc = "idle", !.outcome = "failed"]
    /\ UNCHANGED << toolExecution, toolHistory, processCollapsed, messageToolHistory,
                    conversationId, timers, nextId, nextMessageId, net, producer, request >>

\* the response is ok: createStreamReader, the locals, the first reader.read()
FetchOk ==
    /\ turn.pc = "fetching"
    /\ turn' = [turn EXCEPT !.pc = "reading",
                            !.currentToolHistory = turn.clo.toolHistory]
    /\ net' = [net EXCEPT !.tail = << >>, !.wire = << >>]
    /\ UNCHANGED << isLoading, thinking, toolExecution, toolHistory, processCollapsed,
                    messages, messageToolHistory, conversationId, error,
                    timers, nextId, nextMessageId, producer, request, obs >>

\* ------------------------------------------------- the chunks of a stream
RECURSIVE Flatten(_)
Flatten(lines) ==
    IF Len(lines) = 0 THEN << >> ELSE Head(lines) \o Flatten(Tail(lines))

\* The places where the transport may cut line i of the producer: nowhere
\* (i = 0), or after its first at tokens, with something left over.
Cuts ==
    { [i |-> 0, at |-> 0] } \cup
    IF producer.cuts
    THEN UNION { { [i |-> i, at |-> at] :
                     at \in 1..(Len(producer.lines[i]) - 1) } :
                 i \in 1..Len(producer.lines) }
    ELSE { }
CutHead(cut) ==
    IF cut.i = 0 THEN << >> ELSE SubSeq(producer.lines[cut.i], 1, cut.at)
CutTail(cut) ==
    IF cut.i = 0 THEN << >>
    ELSE SubSeq(producer.lines[cut.i], cut.at + 1, Len(producer.lines[cut.i]))

\* One "await reader.read()" that returns a chunk, and the for loop over its
\* lines.  The chunk is the rest of the line cut before, then whole lines,
\* then the head of a line the transport cuts.
ReadChunk ==
    /\ turn.pc = "reading"
    /\ \E n \in 0..MaxChunkLines :
       \E pick \in [1..n -> 1..Len(producer.lines)] :
       \E cut \in Cuts :
         LET written == n + (IF cut.i = 0 THEN 0 ELSE 1)
             chunk == net.tail
                      \o Flatten([k \in 1..n |-> producer.lines[pick[k]]])
                      \o CutHead(cut)
             lines == DataLines(chunk)
             s == StateOf
             s1 == ProcessLines(lines, turn.clo, s)
         IN  /\ Len(chunk) > 0
             /\ net.frames + written <= producer.frames
             /\ net' = [tail |-> CutTail(cut),
                        wire |-> IF producer.log THEN net.wire \o chunk ELSE net.wire,
                        frames |-> net.frames + written,
                        load |-> net.load]
             /\ toolExecution' = s1.toolExecution
             /\ toolHistory' = s1.toolHistory
             /\ processCollapsed' = s1.processCollapsed
             /\ conversationId' = s1.conversationId
             /\ timers' = s1.timers
             /\ nextId' = s1.nextId
             /\ turn' = [turn EXCEPT
                           !.pc = IF s1.thrown THEN "idle" ELSE "reading",
                           !.outcome = IF s1.thrown THEN "threw" ELSE @,
                           !.thinkingText = s1.thinkingText,
                           !.responseText = s1.responseText,
                           !.structuredDataItems = s1.structuredDataItems,
                           !.currentToolHistory = s1.currentToolHistory,
                           !.reasoningSteps = s1.reasoningSteps,
                           !.decoded = s1.decoded,
                           !.startLog = s1.startLog,
                           !.doneLog = s1.doneLog]
             /\ IF s1.thrown
                THEN /\ error' = "Unexpected token"
                     /\ messages' = Append(messages,
                                           formatErrorMessage("Unexpected token", turn.no))
                     /\ isLoading' = FALSE
                     /\ thinking' = ""
                     /\ obs' = [obs EXCEPT
                                  !.appended = Append(@, [turn |-> turn.no,
                                                          error |-> TRUE,
                                                          id |-> NoId]),
                                  !.lastChunk = IF producer.log THEN lines ELSE @]
                ELSE /\ thinking' = s1.thinking
                     /\ obs' = [obs EXCEPT
                                  !.lastChunk = IF producer.log THEN lines ELSE @]
                     /\ UNCHANGED << error, messages, isLoading >>
    /\ UNCHANGED << messageToolHistory, nextMessageId, producer, request >>

\* reader.read() rejects
ReadError ==
    /\ turn.pc = "reading"
    /\ Catch("network error")
    /\ turn' = [turn EXCEPT !.pc = "idle", !.outcome = "failed"]
    /\ UNCHANGED << toolExecution, toolHistory, processCollapsed, messageToolHistory,
                    conversationId, timers, nextId, nextMessageId, net, producer, request >>

\* The condition of the assembly with the text alone.
HasResponse_TextOnly(t) == Truthy(t.responseText)

\* if (responseText || structuredDataItems.length > 0 || reasoningSteps.length > 0)
HasResponse(t) ==
    \/ Truthy(t.responseText)
    \/ Len(t.structuredDataItems) > 0
    \/ Len(t.reasoningSteps) > 0

\* reader.read() returns done: the message is assembled and appended
ReadEnd ==
    /\ turn.pc = "reading"
    /\ turn' = [turn EXCEPT !.pc = "idle", !.outcome = "ended"]
    /\ IF HasResponse(turn)
       THEN /\ messageToolHistory' =
                   (nextMessageId :> turn.currentToolHistory) @@ messageToolHistory
            /\ messages' = Append(messages,
                             formatAgentResponse(turn.responseText,
                                                 formatStructuredData(turn.structuredDataItems),
                                                 turn.reasoningSteps,
                                                 turn.currentToolHistory,
                                                 nextMessageId, turn.no))
            /\ toolHistory' = << >>
            /\ nextMessageId' = nextMessageId + 1
            /\ obs' = [obs EXCEPT !.appended =
                          Append(@, [turn |-> turn.no, error |-> FALSE,
                                     id |-> nextMessageId])]
       ELSE UNCHANGED << messageToolHistory, messages, toolHistory, nextMessageId, obs >>
    /\ isLoading' = FALSE
    /\ thinking' = ""
    /\ UNCHANGED << toolExecution, processCollapsed, conversationId, error,
                    timers, nextId, net, producer, request >>

\* ---------------------------------------------------------- clearMessages
ClearMessages ==
    /\ messages' = << >>
    /\ thinking' = ""
    /\ toolExecution' = Null
    /\ toolHistory' = << >>
    /\ conversationId' = NONE
    /\ error' = NONE
    /\ turn' = [turn EXCEPT !.cleared = @ \/ turn.pc # "idle"]
    /\ UNCHANGED << isLoading, processCollapsed, messageToolHistory,
                    timers, nextId, nextMessageId, net, producer, request, obs >>

\* ------------------------- the callback of processDoneEvent's setTimeout
TimerFire ==
    /\ timers > 0
    /\ timers' = timers - 1
    /\ processCollapsed' = TRUE
    /\ toolExecution' = Null
    /\ UNCHANGED << isLoading, thinking, toolHistory, messages, messageToolHistory,
                    conversationId, error, turn, nextId, nextMessageId, net,
                    producer, request, obs >>

Next ==
    \/ SendMessage
    \/ FetchReject
    \/ FetchNotOk
    \/ FetchOk
    \/ ReadChunk
    \/ ReadError
    \/ ReadEnd
    \/ ClearMessages
    \/ TimerFire

\* ------------------------------------------------------- loadConversation
\* The instant of "new Date().toISOString()", later than every timestamp of
\* a persisted message.
NowTime == 9

\* a.timestamp ? new Date(a.timestamp).getTime() : 0
TimeOf(msg) == IF "timestamp" \in DOMAIN msg THEN msg.timestamp ELSE 0

\* [...conversation.messages].sort((a, b) => aTime - bTime): a stable sort
RECURSIVE InsertByTime(_, _)
InsertByTime(sorted, msg) ==
    IF Len(sorted) = 0 THEN << msg >>
    ELSE IF TimeOf(Last(sorted)) <= TimeOf(msg) THEN Append(sorted, msg)
    ELSE Append(InsertByTime(SubSeq(sorted, 1, Len(sorted) - 1), msg), Last(sorted))

\* The persisted messages as they come, unsorted.
sortedMessages_Unsorted(msgs) == msgs

RECURSIVE sortedMessages(_)
sortedMessages(msgs) ==
    IF Len(msgs) = 0 THEN << >>
    ELSE InsertByTime(sortedMessages(SubSeq(msgs, 1, Len(msgs) - 1)), Last(msgs))

\* The callback of sortedMessages.map.  The id made for a record without _id
\* (`historic-${Date.now()}-${Math.random()}`) is written "historic".
AppMessage(msg) ==
    [id |-> OrS(GetS(msg, "_id"), "historic"),
     text |-> OrS(GetS(msg, "content"), OrS(GetS(msg, "text"), "")),
     isUser |-> GetS(msg, "role") = "user",
     structuredData |-> IF "structured_data" \in DOMAIN msg
                        THEN msg.structured_data ELSE << >>,
     timestamp |-> IF "timestamp" \in DOMAIN msg THEN msg.timestamp ELSE NowTime,
     error |-> FALSE]

appMessages(msgs) ==
    LET sorted == sortedMessages(msgs)
    IN  [i \in 1..Len(sorted) |-> AppMessage(sorted[i])]

\* What the history API may answer: a persisted session, its timestamps
\* written as the instants they name, and an object that holds neither a
\* session id nor messages.
StoredSessions ==
    { [session_id |-> "s1",
       messages |-> << [_id |-> "m2", role |-> "assistant", content |-> "Hello",
                        timestamp |-> 2,
                        structured_data |-> << [type |-> "restaurant"] >>],
                       [_id |-> "m1", role |-> "user", content |-> "hi",
                        timestamp |-> 1],
                       [role |-> "assistant", text |-> "Welcome"] >>],
      [title |-> "New chat"] }

\* loadConversation(id) up to "await fetch"
LoadStart ==
    /\ ~net.load
    /\ isLoading' = TRUE
    /\ error' = NONE
    /\ net' = [net EXCEPT !.load = TRUE]
    /\ UNCHANGED << thinking, toolExecution, toolHistory, processCollapsed, messages,
                    messageToolHistory, conversationId, turn, timers, nextId,
                    nextMessageId, producer, request, obs >>

\* A failing load that has reset the session before it fails.
LoadFail_Reset ==
    /\ net.load
    /\ error' = "Failed to load conversation: Failed to fetch"
    /\ isLoading' = FALSE
    /\ messages' = << >>
    /\ conversationId' = NONE
    /\ net' = [net EXCEPT !.load = FALSE]
    /\ UNCHANGED << thinking, toolExecution, toolHistory, processCollapsed,
                    messageToolHistory, turn, timers, nextId,
                    nextMessageId, producer, request, obs >>

\* fetch rejects, or the response is not ok: catch and finally
LoadFail ==
    /\ net.load
    /\ error' = "Failed to load conversation: Failed to fetch"
    /\ isLoading' = FALSE
    /\ net' = [net EXCEPT !.load = FALSE]
    /\ UNCHANGED << thinking, toolExecution, toolHistory, processCollapsed, messages,
                    messageToolHistory, conversationId, turn, timers, nextId,
                    nextMessageId, producer, request, obs >>

\* the response is ok and holds a conversation: the rest of the try, finally
LoadOk ==
    /\ net.load
    /\ \E conversation \in StoredSessions :
          /\ conversationId' = GetS(conversation, "session_id")
          /\ messages' = IF "messages" \in DOMAIN conversation
                         THEN appMessages(conversation.messages)
                         ELSE << >>
          /\ obs' = [obs EXCEPT !.lastLoad = conversation]
    /\ isLoading' = FALSE
    /\ net' = [net EXCEPT !.load = FALSE]
    /\ UNCHANGED << thinking, toolExecution, toolHistory, processCollapsed,
                    messageToolHistory, error, turn, timers, nextId,
                    nextMessageId, producer, request >>

\* The hook with its three functions.
NextSession ==
    \/ SendMessage
    \/ FetchReject
    \/ FetchNotOk
    \/ FetchOk
    \/ ReadChunk
    \/ ReadError
    \/ ReadEnd
    \/ ClearMessages
    \/ TimerFire
    \/ LoadStart
    \/ LoadFail
    \/ LoadOk

\* A conversation that is never cleared.
NextUncleared ==
    \/ SendMessage
    \/ FetchReject
    \/ FetchNotOk
    \/ FetchOk
    \/ ReadChunk
    \/ ReadError
    \/ ReadEnd
    \/ TimerFire

\* ---------------------------------------------------- parseMessageWithCards
\* A message text is read as the sequence of the pieces that the patterns of
\* parseMessageWithCards tell apart: a run of colons, a type word, a bracketed
\* type word, braces, a key with its colon, a string, a number, an array
\* literal, a comma, blanks, a newline, and prose that holds none of these.
\* Strings hold no quote, colon or brace; runs of colons are two to five long.
Prose(v) == [c |-> "prose", v |-> v]
Colons(n) == [c |-> "colons", n |-> n]
Tag(v) == [c |-> "tag", v |-> v]
BTag(v) == [c |-> "[tag]", v |-> v]
RBracket == [c |-> "]"]
LBrace == [c |-> "{"]
RBrace == [c |-> "}"]
Key(q, v) == [c |-> "key", q |-> q, v |-> v]
Str(q, v) == [c |-> "str", q |-> q, v |-> v]
Num(n) == [c |-> "num", n |-> n]
Arr(a) == [c |-> "arr", a |-> a]
Comma == [c |-> ","]
Space == [c |-> "ws"]
NL == [c |-> "nl"]

\* JavaScript values as JSON.parse produces them.
JStr(s) == [t |-> "string", s |-> s]
JRaw(toks) == [t |-> "string", raw |-> toks]
JNum(n) == [t |-> "number", n |-> n]
JArr(a) == [t |-> "array", a |-> a]
JObj(o) == [t |-> "object", o |-> o]
JNull == [t |-> "null"]
NoKeys == << >>
Put(o, k, v) == [x \in (DOMAIN o) \cup {k} |-> IF x = k THEN v ELSE o[x]]
Failed == [ok |-> FALSE]

\* The least member of a set of positions, or none.
First(S, none) == IF S = {} THEN none ELSE CHOOSE j \in S : \A k \in S : j <= k

IsBlank(tok) == tok.c \in {"ws", "nl"}
SkipBlank(toks, i) ==
    First({ j \in i..Len(toks) : ~IsBlank(toks[j]) }, Len(toks) + 1)

\* JSON.parse of an object text: double-quoted keys and strings, a comma
\* between members and none after the last.
RECURSIVE ParseObject(_, _)
RECURSIVE ParseMembers(_, _, _)
ObjectValue(r) ==
    IF r.ok THEN [ok |-> TRUE, v |-> JObj(r.o), next |-> r.next] ELSE Failed

ValueAt(toks, i) ==
    IF i > Len(toks) THEN Failed
    ELSE CASE toks[i].c = "str" /\ toks[i].q = "dq" ->
                  [ok |-> TRUE, v |-> JStr(toks[i].v), next |-> i + 1]
           [] toks[i].c = "num" ->
                  [ok |-> TRUE, v |-> JNum(toks[i].n), next |-> i + 1]
           [] toks[i].c = "arr" ->
                  [ok |-> TRUE, v |-> JArr(toks[i].a), next |-> i + 1]
           [] toks[i].c = "{" -> ObjectValue(ParseObject(toks, i))
           [] OTHER -> Failed

ParseValue(toks, at) == ValueAt(toks, SkipBlank(toks, at))

AfterMember(toks, j, o) ==
    IF j > Len(toks) THEN Failed
    ELSE IF toks[j].c = "," THEN ParseMembers(toks, j + 1, o)
    ELSE IF toks[j].c = "}" THEN [ok |-> TRUE, o |-> o, next |-> j + 1]
    ELSE Failed

AfterValue(toks, k, r, acc) ==
    IF ~r.ok THEN Failed
    ELSE AfterMember(toks, SkipBlank(toks, r.next), Put(acc, k, r.v))

MemberAt(toks, i, acc) ==
    IF i > Len(toks) THEN Failed
    ELSE IF toks[i].c # "key" THEN Failed
    ELSE IF toks[i].q # "dq" THEN Failed
    ELSE AfterValue(toks, toks[i].v, ParseValue(toks, i + 1), acc)

ParseMembers(toks, at, acc) == MemberAt(toks, SkipBlank(toks, at), acc)

MembersAt(toks, j) ==
    IF j <= Len(toks) /\ toks[j].c = "}"
    THEN [ok |-> TRUE, o |-> NoKeys, next |-> j + 1]
    ELSE MemberAt(toks, j, NoKeys)

ParseObject(toks, i) ==
    IF i > Len(toks) THEN Failed
    ELSE IF toks[i].c # "{" THEN Failed
    ELSE MembersAt(toks, SkipBlank(toks, i + 1))

WholeObject(toks, r) ==
    IF r.ok /\ SkipBlank(toks, r.next) > Len(toks)
    THEN [ok |-> TRUE, o |-> r.o]
    ELSE Failed

JSONParseObject(toks) == WholeObject(toks, ParseObject(toks, SkipBlank(toks, 1)))

\* cleanJsonText: bare keys quoted, single quotes made double, newlines made
\* blanks.  Its trailing-comma replacement puts back what it matched.
CleanTok(tok) ==
    CASE tok.c = "key" -> Key("dq", tok.v)
      [] tok.c = "str" -> Str("dq", tok.v)
      [] tok.c = "nl" -> Space
      [] OTHER -> tok
cleanJsonText(toks) == [i \in 1..Len(toks) |-> CleanTok(toks[i])]

\* ultraCleanJson: a comma with only blanks before a closing brace is removed,
\* blanks included.
CommaBeforeClose(toks, i) ==
    /\ toks[i].c = ","
    /\ SkipBlank(toks, i + 1) <= Len(toks)
    /\ toks[SkipBlank(toks, i + 1)].c = "}"
BlankBeforeClose(toks, i) ==
    /\ IsBlank(toks[i])
    /\ \E j \in 1..(i - 1) : CommaBeforeClose(toks, j) /\ SkipBlank(toks, j + 1) > i
ultraCleanJson(toks) ==
    LET keep == { i \in 1..Len(toks) :
                    ~CommaBeforeClose(toks, i) /\ ~BlankBeforeClose(toks, i) }
    IN  [n \in 1..Cardinality(keep) |->
            toks[CHOOSE i \in keep : Cardinality({ j \in keep : j <= i }) = n]]

\* keyValuePattern over the body as received: a bare or double-quoted key, then
\* a double-quoted string, a number, an array literal or the text from a brace
\* to the first closing brace.  An empty string counts as no value (null).
FirstClose(toks, i) ==
    First({ j \in (i + 1)..Len(toks) : toks[j].c = "}" }, 0)

InnerValue(inner, r) == IF r.ok THEN JObj(r.o) ELSE JRaw(inner)

RECURSIVE Extract(_, _, _)
ExtractValue(toks, i, j, k, acc) ==
    IF j > Len(toks) THEN acc
    ELSE CASE toks[j].c = "str" /\ toks[j].q = "dq" ->
                  Extract(toks, j + 1,
                          Put(acc, k, IF toks[j].v = "" THEN JNull
                                      ELSE JStr(toks[j].v)))
           [] toks[j].c = "num" ->
                  Extract(toks, j + 1, Put(acc, k, JNum(toks[j].n)))
           [] toks[j].c = "arr" ->
                  Extract(toks, j + 1, Put(acc, k, JArr(toks[j].a)))
           [] toks[j].c = "{" /\ FirstClose(toks, j) # 0 ->
                  Extract(toks, FirstClose(toks, j) + 1,
                          Put(acc, k,
                              InnerValue(SubSeq(toks, j, FirstClose(toks, j)),
                                         JSONParseObject(
                                             SubSeq(toks, j, FirstClose(toks, j))))))
           [] OTHER -> Extract(toks, i + 1, acc)

Extract(toks, i, acc) ==
    IF i > Len(toks) THEN acc
    ELSE IF toks[i].c # "key" THEN Extract(toks, i + 1, acc)
    ELSE IF toks[i].q = "sq" THEN Extract(toks, i + 1, acc)
    ELSE ExtractValue(toks, i, SkipBlank(toks, i + 1), toks[i].v, acc)

\* The strings of the texts that begin with "[" and end with "]", with what
\* JSON.parse makes of them.
ArrayLike(s) == s \in {"[1,2]", "[sold out]"}
ParseArrayText(s) ==
    IF s = "[1,2]" THEN [ok |-> TRUE, a |-> << JNum(1), JNum(2) >>] ELSE Failed

\* "Process arrays that may have been captured as strings".
ArrayFromString(v) ==
    IF v.t = "string" /\ "s" \in DOMAIN v /\ ArrayLike(v.s)
                      /\ ParseArrayText(v.s).ok
    THEN JArr(ParseArrayText(v.s).a)
    ELSE v
ArraysFromStrings(o) == [k \in DOMAIN o |-> ArrayFromString(o[k])]

\* The staged parse of a matched body.  stages lists the parses attempted.
Stage4(jsonText) ==
    [o |-> Extract(jsonText, 1, NoKeys), parseMethod |-> "regex-extracted",
     stages |-> << 1, 2, 3, 4 >>]
Stage3(jsonText, s3) ==
    IF s3.ok
    THEN [o |-> s3.o, parseMethod |-> "ultra-cleaned", stages |-> << 1, 2, 3 >>]
    ELSE Stage4(jsonText)
Stage2(jsonText, s2) ==
    IF s2.ok THEN [o |-> s2.o, parseMethod |-> "cleaned", stages |-> << 1, 2 >>]
    ELSE Stage3(jsonText,
                JSONParseObject(ultraCleanJson(cleanJsonText(jsonText))))
Stage1(jsonText, s1) ==
    IF s1.ok THEN [o |-> s1.o, parseMethod |-> "standard", stages |-> << 1 >>]
    ELSE Stage2(jsonText, JSONParseObject(cleanJsonText(jsonText)))
ParseStages(jsonText) == Stage1(jsonText, JSONParseObject(jsonText))

\* ------------------------------------------------------------- cardPattern
CardTypes ==
    {"restaurant", "food_item", "product", "order_details", "refund_status", "cart"}

\* The pattern's body: from an opening brace to the brace that closes it, with
\* braces nested at most three deep.  0 when the pattern finds no such body.
PatternDepth == 3

\* The brace depth after piece j of a body that opens at piece b.
DepthAfter(toks, b, j) ==
    Cardinality({ k \in b..j : toks[k].c = "{" })
    - Cardinality({ k \in b..j : toks[k].c = "}" })

Closer(toks, b) ==
    First({ j \in b..Len(toks) : DepthAfter(toks, b, j) = 0 }, 0)

BodyWithin(toks, b, e) ==
    IF e # 0 /\ \A j \in b..e : DepthAfter(toks, b, j) <= PatternDepth
    THEN e ELSE 0

BodyEnd(toks, b) ==
    IF b <= Len(toks) /\ toks[b].c = "{"
    THEN BodyWithin(toks, b, Closer(toks, b))
    ELSE 0

\* A match of cardPattern that begins at piece p: the type, the body and the
\* piece that closes the match.
ColonOpen(toks, p) ==
    /\ toks[p].c = "colons"
    /\ p < Len(toks)
    /\ toks[p + 1].c = "tag"
    /\ toks[p + 1].v \in CardTypes
BracketOpen(toks, p) == toks[p].c = "[tag]" /\ toks[p].v \in CardTypes

Closed(toks, cardType, b, e, c) ==
    IF e # 0 /\ c <= Len(toks) /\ toks[c].c \in {"colons", "]"}
    THEN [ok |-> TRUE, cardType |-> cardType, jsonText |-> SubSeq(toks, b, e),
          last |-> c]
    ELSE Failed

Body(toks, cardType, b, e) == Closed(toks, cardType, b, e, SkipBlank(toks, e + 1))

Opened(toks, cardType, b) == Body(toks, cardType, b, BodyEnd(toks, b))

MatchAt(toks, p) ==
    IF ColonOpen(toks, p)
    THEN Opened(toks, toks[p + 1].v, SkipBlank(toks, p + 2))
    ELSE IF BracketOpen(toks, p)
    THEN Opened(toks, toks[p].v, SkipBlank(toks, p + 1))
    ELSE Failed

\* cardPattern.exec from lastIndex: the leftmost match, 0 when there is none.
Exec(toks, lastIndex) ==
    First({ p \in lastIndex..Len(toks) : MatchAt(toks, p).ok }, 0)

TextPart(content, candidate) ==
    [type |-> "text", content |-> content, candidate |-> candidate]

\* The part pushed for a match: a card when the staged parse leaves an object
\* with keys, the matched text otherwise.  span and stages are history.
Card(cardType, r, cardData, span) ==
    [type |-> "card", cardType |-> cardType, cardData |-> cardData,
     parseMethod |-> r.parseMethod, stages |-> r.stages, span |-> span]

CardOrText_Dropped(cardType, r, cardData, span) ==
    IF DOMAIN cardData # {} THEN << Card(cardType, r, cardData, span) >>
    ELSE << >>

CardOrText(cardType, r, cardData, span) ==
    IF DOMAIN cardData # {} THEN << Card(cardType, r, cardData, span) >>
    ELSE << TextPart(span, TRUE) >>

Processed(m, r, span) == CardOrText(m.cardType, r, ArraysFromStrings(r.o), span)

CardPart(toks, p, m) ==
    Processed(m, ParseStages(m.jsonText), SubSeq(toks, p, m.last))

RECURSIVE Parts(_, _)
PartsFrom(toks, lastIndex, p) ==
    IF p = 0
    THEN IF lastIndex <= Len(toks)
         THEN << TextPart(SubSeq(toks, lastIndex, Len(toks)), FALSE) >>
         ELSE << >>
    ELSE (IF p > lastIndex
          THEN << TextPart(SubSeq(toks, lastIndex, p - 1), FALSE) >>
          ELSE << >>)
         \o CardPart(toks, p, MatchAt(toks, p))
         \o Parts(toks, MatchAt(toks, p).last + 1)

Parts(toks, lastIndex) == PartsFrom(toks, lastIndex, Exec(toks, lastIndex))

\* ':::type{ strict JSON of data }:::' of an object with a type and the
\* members of its data in order.
EncodeValue(v) ==
    CASE v.t = "string" -> Str("dq", v.s)
      [] v.t = "number" -> Num(v.n)
      [] v.t = "array" -> Arr(v.a)

RECURSIVE EncodeMembers(_)
EncodeMembers(members) ==
    IF members = << >> THEN << >>
    ELSE << Key("dq", members[1][1]), EncodeValue(members[1][2]) >>
         \o (IF Len(members) > 1 THEN << Comma >> ELSE << >>)
         \o EncodeMembers(Tail(members))

Encode(O) ==
    << Colons(3), Tag(O.type), LBrace >> \o EncodeMembers(O.data)
    \o << RBrace, Colons(3) >>

RECURSIVE ObjectOf(_)
ObjectOf(members) ==
    IF members = << >> THEN NoKeys
    ELSE Put(ObjectOf(SubSeq(members, 1, Len(members) - 1)),
             members[Len(members)][1], members[Len(members)][2])

OrderCard ==
    [type |-> "order_details",
     data |-> << << "order_id", JStr("123") >>, << "total_price", JNum(450) >> >>]
TagsCard ==
    [type |-> "restaurant",
     data |-> << << "name", JStr("A2B") >>, << "tags", JStr("[1,2]") >> >>]
NoteCard ==
    [type |-> "restaurant",
     data |-> << << "name", JStr("A2B") >>, << "note", JStr("[sold out]") >> >>]
VerifyCard ==
    [type |-> "image_verification_result",
     data |-> << << "status", JStr("verified") >> >>]
CardObjects == {OrderCard, TagsCard, NoteCard, VerifyCard}

\* The message texts, and the pieces each one is read as.
TextPlain == "Here you go"
TextOrder == ":::order_details{\"order_id\":\"123\",\"total_price\":450}:::"
TextTags == ":::restaurant{\"name\":\"A2B\",\"tags\":\"[1,2]\"}:::"
TextNote == ":::restaurant{\"name\":\"A2B\",\"note\":\"[sold out]\"}:::"
TextVerify == ":::image_verification_result{\"status\":\"verified\"}:::"
TextLoose == "Total: :::order_details{order_id: '123', total_price: 450}::: Enjoy"
TextTrailing == "[restaurant]{name: 'A2B', }]"
TextNoComma == ":::food_item{\"name\": \"Dosa\" \"price\": 60}:::"
TextEmpty == ":::cart{}::: or :::cart{ 'x' }:::"
TextMealPlan == ":::product{\"meal_plan\":{\"breakfast\":[\"a\",\"b\"]}}:::"
TextDeep == ":::product{\"a\":{\"b\":{\"c\":{\"d\":1}}}}:::"

Lex(text) ==
    CASE text = "" -> << >>
      [] text = TextOrder -> Encode(OrderCard)
      [] text = TextTags -> Encode(TagsCard)
      [] text = TextNote -> Encode(NoteCard)
      [] text = TextVerify -> Encode(VerifyCard)
      [] text = TextLoose ->
             << Prose("Total: "), Colons(3), Tag("order_details"), LBrace,
                Key("bare", "order_id"), Space, Str("sq", "123"), Comma, Space,
                Key("bare", "total_price"), Space, Num(450), RBrace, Colons(3),
                Prose(" Enjoy") >>
      [] text = TextTrailing ->
             << BTag("restaurant"), LBrace, Key("bare", "name"), Space,
                Str("sq", "A2B"), Comma, Space, RBrace, RBracket >>
      [] text = TextNoComma ->
             << Colons(3), Tag("food_item"), LBrace, Key("dq", "name"), Space,
                Str("dq", "Dosa"), Space, Key("dq", "price"), Space, Num(60),
                RBrace, Colons(3) >>
      [] text = TextEmpty ->
             << Colons(3), Tag("cart"), LBrace, RBrace, Colons(3), Prose(" or "),
                Colons(3), Tag("cart"), LBrace, Space, Str("sq", "x"), Space,
                RBrace, Colons(3) >>
      [] text = TextMealPlan ->
             << Colons(3), Tag("product"), LBrace, Key("dq", "meal_plan"), LBrace,
                Key("dq", "breakfast"), Arr(<< JStr("a"), JStr("b") >>), RBrace,
                RBrace, Colons(3) >>
      [] text = TextDeep ->
             << Colons(3), Tag("product"), LBrace, Key("dq", "a"), LBrace,
                Key("dq", "b"), LBrace, Key("dq", "c"), LBrace, Key("dq", "d"),
                Num(1), RBrace, RBrace, RBrace, RBrace, Colons(3) >>
      [] OTHER -> << Prose(text) >>

parseMessageWithCards(text) ==
    IF ~Truthy(text) THEN << TextPart(<< >>, FALSE) >>
    ELSE Parts(Lex(text), 1)

\* A message of the conversation is rendered: its text is parsed into parts.
ParseMessage ==
    /\ \E i \in 1..Len(messages) :
          obs' = [obs EXCEPT !.render =
                     [text |-> messages[i].text,
                      parts |-> parseMessageWithCards(messages[i].text)]]
    /\ UNCHANGED << isLoading, thinking, toolExecution, toolHistory,
                    processCollapsed, messages, messageToolHistory,
                    conversationId, error, turn, timers, nextId, nextMessageId,
                    net, producer, request >>

\* The hook, never cleared, with the rendering of its messages.
NextRendered ==
    \/ SendMessage
    \/ FetchReject
    \/ FetchNotOk
    \/ FetchOk
    \/ ReadChunk
    \/ ReadError
    \/ ReadEnd
    \/ ParseMessage

\* ------------------------------------------------------------ the events
EvAction ==
    [type |-> "agent_action", tool_name |-> "search_restaurants",
     input |-> [query |-> "pizza"]]
EvStart == [type |-> "tool_start", tool_name |-> "get_restaurant_menu"]
EvEnd == [type |-> "tool_end", output |-> [results |-> 3]]
EvError == [type |-> "tool_error", data |-> "boom"]
EvMessage == [type |-> "message", data |-> "Here you go"]
EvData ==
    [type |-> "structured_data", data |-> [name |-> "Pizza Hut", rating |-> "4.2"]]
EvStep ==
    [type |-> "reasoning_step", data |-> [step |-> 1, thought |-> ThoughtToolUse]]
EvDone == [type |-> "done", conversation_id |-> "c1"]
EvDoneBare == [type |-> "done"]

\* The tool lifecycle: line-aligned chunks of well-formed events.
ToolProducer ==
    [lines |-> << FrameOf(EvAction), FrameOf(EvStart), FrameOf(EvEnd),
                  FrameOf(EvError), FrameOf(EvDone) >>,
     frames |-> MaxFrames, cuts |-> FALSE, log |-> FALSE]
Init == Init0 /\ producer = ToolProducer
Spec == Init /\ [][Next]_vars
TimelineSpec == Init /\ [][NextUncleared]_vars

\* What a turn accumulates for its message: text, items, steps.
AssemblyProducer ==
    [lines |-> << FrameOf(EvMessage), FrameOf(EvData), FrameOf(EvStep),
                  FrameOf(EvEnd), FrameOf(EvDone) >>,
     frames |-> MaxFrames - 1, cuts |-> FALSE, log |-> FALSE]
AssemblyInit == Init0 /\ producer = AssemblyProducer
AssemblySpec == AssemblyInit /\ [][Next]_vars

\* The frame reader under a transport that cuts lines.
ReaderProducer ==
    [lines |-> << FrameOf(EvEnd), FrameOf(EvMessage), FrameOf(EvDone) >>,
     frames |-> MaxFrames, cuts |-> TRUE, log |-> TRUE]
ReaderInit == Init0 /\ producer = ReaderProducer
ReaderSpec == ReaderInit /\ [][Next]_vars

\* Data lines that are no JSON among lines that are.
SkipProducer ==
    [lines |-> << BadFrame, FrameOf(EvEnd), FrameOf(EvMessage), FrameOf(EvDone) >>,
     frames |-> MaxFrames, cuts |-> FALSE, log |-> TRUE]
SkipInit == Init0 /\ producer = SkipProducer
SkipSpec == SkipInit /\ [][Next]_vars

\* A tool error with and without a tool started before it.
ErrorProducer ==
    [lines |-> << FrameOf(EvAction), FrameOf(EvError), FrameOf(EvMessage),
                  FrameOf(EvDone) >>,
     frames |-> MaxFrames, cuts |-> FALSE, log |-> TRUE]
ErrorInit == Init0 /\ producer = ErrorProducer
ErrorSpec == ErrorInit /\ [][NextUncleared]_vars

\* The session: turns that end with and without a conversation id.
SessionProducer ==
    [lines |-> << FrameOf(EvEnd), FrameOf(EvDone), FrameOf(EvDoneBare) >>,
     frames |-> MaxFrames - 1, cuts |-> FALSE, log |-> FALSE]
SessionInit == Init0 /\ producer = SessionProducer
SessionSpec == SessionInit /\ [][NextSession]_vars

\* Whole turns of a search: action, end, message, done.
ScenarioProducer ==
    [lines |-> << FrameOf(EvAction), FrameOf(EvEnd), FrameOf(EvMessage),
                  FrameOf(EvDone) >>,
     frames |-> MaxFrames + 2, cuts |-> FALSE, log |-> TRUE]
ScenarioInit == Init0 /\ producer = ScenarioProducer
ScenarioSpec == ScenarioInit /\ [][NextUncleared]_vars

\* Answers whose text holds cards.
EvText(text) == [type |-> "message", data |-> text]
CardTexts ==
    << TextPlain, TextOrder, TextTags, TextNote, TextVerify, TextLoose,
       TextTrailing, TextNoComma, TextEmpty, TextMealPlan, TextDeep >>
CardProducer ==
    [lines |-> [i \in 1..Len(CardTexts) |-> FrameOf(EvText(CardTexts[i]))],
     frames |-> MaxFrames - 2, cuts |-> FALSE, log |-> FALSE]
CardInit == Init0 /\ producer = CardProducer
CardSpec == CardInit /\ [][NextRendered]_vars

\* Payloads of structured_data events, one or more for each inference rule.
PayEnvelope ==
    [type |-> "order_details", data |-> [order_id |-> "123"],
     verification_status |-> "verified"]
PayVerification ==
    [verification_score |-> "90", name |-> "Pizza Hut", rating |-> "4.2"]
PayWorkflow ==
    [workflow_id |-> "w1", current_stage |-> "review", name |-> "Pizza Hut",
     cuisine |-> "Italian"]
PayRestaurant == [name |-> "Pizza Hut", rating |-> "4.2", price |-> "60"]
PayFood == [name |-> "Dosa", price |-> "60", restaurant |-> [name |-> "A2B"]]
PayNested == [restaurant |-> [name |-> "A2B"], price |-> "60"]
PayNestedFood == [food_item |-> [name |-> "Dosa"], rating |-> "4.2"]
PayRating == [rating |-> "4.2", price |-> "60"]
PayPrice == [price |-> "60", name |-> ""]
PayOther == [title |-> "Offers", name |-> "Pizza Hut"]
Payloads ==
    << EvData.data, PayEnvelope, PayVerification, PayWorkflow, PayRestaurant,
       PayFood, PayNested, PayNestedFood, PayRating, PayPrice, PayOther >>

\* Turns that are sent, answered and ended.
NextTurns ==
    \/ SendMessage
    \/ FetchReject
    \/ FetchNotOk
    \/ FetchOk
    \/ ReadChunk
    \/ ReadError
    \/ ReadEnd

\* Structured payloads of every shape.
PayloadProducer ==
    [lines |-> [i \in 1..Len(Payloads) |->
                   FrameOf([type |-> "structured_data", data |-> Payloads[i]])],
     frames |-> MaxFrames - 2, cuts |-> FALSE, log |-> TRUE]
PayloadInit == Init0 /\ producer = PayloadProducer
PayloadSpec == PayloadInit /\ [][NextTurns]_vars

\* A reasoning step that announces a tool, and the formal events for it.
EvActionMenu == [type |-> "agent_action", tool_name |-> "get_restaurant_menu"]
MarkerProducer ==
    [lines |-> << FrameOf(EvStep), FrameOf(EvActionMenu), FrameOf(EvStart),
                  FrameOf(EvEnd) >>,
     frames |-> MaxFrames - 1, cuts |-> FALSE, log |-> TRUE]
MarkerInit == Init0 /\ producer = MarkerProducer
MarkerSpec == MarkerInit /\ [][NextTurns]_vars

\* ------------------------------------------ utils: renderStructuredData
\* An array value, and the values that are falsy as objects.
JsArray(items) == [js |-> "array", items |-> items]
IsArray(x) == "js" \in DOMAIN x /\ x.js = "array"
Nullish(x) == x = Null \/ x = Undef
\* if (p.k), where the fields of ObjectFields hold objects and the others
\* strings.
Holds(p, k) ==
    /\ k \in DOMAIN p
    /\ IF k \in ObjectFields THEN ~Nullish(p[k]) ELSE Truthy(p[k])
\* o.k && typeof o.k === 'object'
HoldsObject(p, k) == k \in DOMAIN p /\ ~Nullish(p[k])
\* A React element: the component and its one prop.
Element(component, prop) == [component |-> component, prop |-> prop]
\* The TypeError of reading a property of null or undefined, inside the try.
Threw == [js |-> "TypeError"]

\* processedType.toLowerCase(), then food_item mapped to product.  The other
\* type strings of the model are lower-case already.
ToLowerCase(type) == IF type = "Restaurant" THEN "restaurant" ELSE type
NormalType(type) ==
    IF type = NONE THEN NONE
    ELSE IF ToLowerCase(type) = "food_item" THEN "product"
    ELSE ToLowerCase(type)

\* case 'order_details' and case 'refund_status': the nested object folded
\* in, then wrapped when it has the marking fields and no type.
OrderData(processedData) ==
    IF HoldsObject(processedData, "order")
    THEN Merge(processedData, processedData.order) ELSE processedData
WrappedOrder(orderData) ==
    IF "total_price" \in DOMAIN orderData /\ "type" \notin DOMAIN orderData
    THEN [type |-> "order_details", data |-> orderData] ELSE orderData
RefundData(processedData) ==
    IF HoldsObject(processedData, "refund")
    THEN Merge(processedData, processedData.refund) ELSE processedData
WrappedRefund(refundData) ==
    IF /\ ("status" \in DOMAIN refundData \/ "refund_status" \in DOMAIN refundData)
       /\ "type" \notin DOMAIN refundData
    THEN [type |-> "refund_status", data |-> refundData] ELSE refundData
\* case 'dietary_recommendations'
MealFoods(processedData, meal) ==
    IF HoldsObject(processedData, "meal_plan")
       /\ HoldsObject(processedData.meal_plan, meal)
    THEN processedData.meal_plan[meal] ELSE JsArray(<< >>)
DietaryData(processedData) ==
    [document_type |-> "diet_plan",
     analysis_confidence |-> 90,
     dietary_goals |-> GetO(processedData, "dietary_approach"),
     foods_recommended |-> GetO(processedData, "foods_to_emphasize"),
     foods_to_avoid |-> GetO(processedData, "foods_to_limit"),
     meal_plan |-> << [meal |-> "Breakfast", foods |-> MealFoods(processedData, "breakfast")],
                      [meal |-> "Lunch", foods |-> MealFoods(processedData, "lunch")],
                      [meal |-> "Dinner", foods |-> MealFoods(processedData, "dinner")],
                      [meal |-> "Snacks", foods |-> MealFoods(processedData, "snacks")] >>,
     special_instructions |-> GetO(processedData, "special_considerations"),
     patient_info |->
         [other_details |-> "Medical condition: " \o GetS(processedData, "condition")]]

\* The switch on the type, with the inference of its default case.
RenderTyped(processedType, processedData) ==
    CASE processedType \in {"product", "food_item"} ->
           Element("ProductCard", processedData)
      [] processedType = "restaurant" -> Element("RestaurantCard", processedData)
      [] processedType = "order_details" ->
           Element("OrderDetails", WrappedOrder(OrderData(processedData)))
      [] processedType = "refund_status" ->
           Element("RefundStatus", WrappedRefund(RefundData(processedData)))
      [] processedType = "image_verification_result" ->
           Element("ImageVerificationStatus", processedData)
      [] processedType = "refund_workflow_state" ->
           Element("RefundWorkflowStatus", processedData)
      [] processedType = "document_analysis_result" ->
           Element("DocumentAnalysisResult", processedData)
      [] processedType = "dietary_recommendations" ->
           Element("DocumentAnalysisResult", DietaryData(processedData))
      [] OTHER ->
           IF /\ (Holds(processedData, "name") \/ Holds(processedData, "restaurant_name"))
              /\ \/ Holds(processedData, "rating")
                 \/ Holds(processedData, "cuisine")
                 \/ Holds(processedData, "delivery_time")
                 \/ Holds(processedData, "distance")
           THEN Element("RestaurantCard", processedData)
           ELSE IF /\ (Holds(processedData, "name") \/ Holds(processedData, "item_name"))
                   /\ \/ Holds(processedData, "price")
                      \/ Holds(processedData, "cost")
                      \/ Holds(processedData, "description")
                      \/ Holds(processedData, "category")
                THEN Element("ProductCard", processedData)
                ELSE Null

RECURSIVE renderStructuredData(_, _)
\* items.map(...): item.type || processedType and item.data || item, read
\* from each item in the frame of the caller.
RenderItem(item, processedType) ==
    IF Nullish(item) THEN Threw
    ELSE renderStructuredData(OrS(GetS(item, "type"), processedType),
                              IF Holds(item, "data") THEN item.data ELSE item)
RenderItems(items, processedType) ==
    [k \in 1..Len(items) |-> RenderItem(items[k], processedType)]
\* catch (error) { return null; } around the whole of the function
Caught(rendered) ==
    IF \E k \in 1..Len(rendered) : rendered[k] = Threw
    THEN Null ELSE [list |-> rendered]
\* The array of the payload, when it is one or carries one in results.
ItemsOf(processedData) ==
    IF IsArray(processedData) THEN processedData.items
    ELSE IF "results" \in DOMAIN processedData /\ IsArray(processedData.results)
         THEN processedData.results.items
         ELSE << >>
HasItems(processedData) ==
    \/ IsArray(processedData)
    \/ "results" \in DOMAIN processedData /\ IsArray(processedData.results)
RenderNormal(processedType, processedData) ==
    IF HasItems(processedData)
    THEN Caught(RenderItems(ItemsOf(processedData), processedType))
    ELSE RenderTyped(processedType, processedData)
RenderExtracted(processedType, processedData) ==
    IF Nullish(processedData) THEN Null
    ELSE RenderNormal(NormalType(processedType), processedData)
\* renderStructuredData(type, data) with type a string or undefined, as
\* MessageList and the recursion call it.
renderStructuredData(type, data) ==
    IF Nullish(data) THEN Null
    ELSE IF Holds(data, "type") /\ Holds(data, "data")
         THEN RenderExtracted(data.type, data.data)
         ELSE RenderExtracted(type, data)

\* MessageList: the cards of the structuredData of message i.
RenderCards ==
    /\ \E i \in 1..Len(messages) :
          /\ "structuredData" \in DOMAIN messages[i]
          /\ obs' = [obs EXCEPT !.cards =
                [of |-> i,
                 elements |->
                     [k \in 1..Len(messages[i].structuredData) |->
                        renderStructuredData(
                            GetS(messages[i].structuredData[k], "type"),
                            GetO(messages[i].structuredData[k], "data"))]]]
    /\ UNCHANGED << isLoading, thinking, toolExecution, toolHistory,
                    processCollapsed, messages, messageToolHistory,
                    conversationId, error, turn, timers, nextId, nextMessageId,
                    net, producer, request >>

NextGallery ==
    \/ SendMessage
    \/ FetchReject
    \/ FetchNotOk
    \/ FetchOk
    \/ ReadChunk
    \/ ReadError
    \/ ReadEnd
    \/ RenderCards

\* Payloads that are lists of cards.
ItemRestaurant == [name |-> "Pizza Hut", rating |-> "4.2"]
ItemFood == [type |-> "food_item", data |-> [name |-> "Dosa", price |-> "60"]]
ItemOther == [title |-> "Offers"]
PayResults ==
    [type |-> "Restaurant",
     data |-> [results |-> JsArray(<< ItemRestaurant, ItemFood >>)]]
PayResultsNull ==
    [type |-> "restaurant",
     data |-> [results |-> JsArray(<< Null, ItemRestaurant >>)]]
PayArray ==
    [type |-> "search_results", data |-> JsArray(<< ItemOther, ItemFood >>)]
EvList(payload) == [type |-> "structured_data", data |-> payload]
GalleryProducer ==
    [lines |-> << FrameOf(EvList(PayResults)), FrameOf(EvList(PayResultsNull)),
                  FrameOf(EvList(PayArray)), FrameOf(EvList(PayOther)) >>,
     frames |-> MaxFrames - 1, cuts |-> FALSE, log |-> FALSE]
GalleryInit == Init0 /\ producer = GalleryProducer
GallerySpec == GalleryInit /\ [][NextGallery]_vars

\* ------------------------------------------- sendMessage with blank text
\* messageText.trim() for the texts of the model.
Trim(messageText) == IF messageText = "  " THEN "" ELSE messageText
\* A blank text sent and taken for a message.
SendBlank_Appended ==
    /\ obs.blank < MaxTurns
    /\ messages' = Append(messages, formatUserMessage("  ", turn.no))
    /\ obs' = [obs EXCEPT !.blank = @ + 1]
    /\ UNCHANGED << isLoading, thinking, toolExecution, toolHistory,
                    processCollapsed, messageToolHistory, conversationId, error,
                    turn, timers, nextId, nextMessageId, net, producer, request >>

\* if (!messageText.trim()) return;  The call is counted in obs.blank.
SendBlank ==
    /\ obs.blank < MaxTurns
    /\ Trim("  ") = ""
    /\ obs' = [obs EXCEPT !.blank = @ + 1]
    /\ UNCHANGED << isLoading, thinking, toolExecution, toolHistory,
                    processCollapsed, messages, messageToolHistory,
                    conversationId, error, turn, timers, nextId, nextMessageId,
                    net, producer, request >>

NextHistory ==
    \/ SendMessage
    \/ SendBlank
    \/ FetchReject
    \/ FetchNotOk
    \/ FetchOk
    \/ ReadChunk
    \/ ReadError
    \/ ReadEnd

\* Turns of every outcome, and blank sends between them.
HistoryProducer ==
    [lines |-> << FrameOf(EvMessage), FrameOf(EvData), FrameOf(EvEnd) >>,
     frames |-> MaxFrames - 1, cuts |-> FALSE, log |-> FALSE]
HistoryInit == Init0 /\ producer = HistoryProducer
HistorySpec == HistoryInit /\ [][NextHistory]_vars

\* -------------------------------------------- a turn after the grace timer
\* sendMessage as in SendMessage, for one turn more: a timer is set by the
\* done event of the second turn at the earliest, since the execution the
\* first turn's closure holds is null.
SendMessageLater ==
    /\ turn.pc = "idle"
    /\ turn.no < MaxTurns + 1
    /\ messages' = Append(messages, formatUserMessage("hi", turn.no + 1))
    /\ isLoading' = TRUE
    /\ thinking' = ""
    /\ error' = NONE
    /\ turn' = [NoTurn EXCEPT !.pc = "fetching",
                              !.no = turn.no + 1,
                              !.clo = [toolHistory |-> toolHistory,
                                       toolExecution |-> toolExecution],
                              !.firstId = nextId]
    /\ obs' = [obs EXCEPT !.requests = Append(@, 1)]
    /\ UNCHANGED << toolExecution, toolHistory, processCollapsed, messageToolHistory,
                    conversationId, timers, nextId, nextMessageId, net, producer, request >>

NextLater ==
    \/ SendMessageLater
    \/ FetchReject
    \/ FetchNotOk
    \/ FetchOk
    \/ ReadChunk
    \/ ReadError
    \/ ReadEnd
    \/ TimerFire

GraceProducer ==
    [lines |-> << FrameOf(EvAction), FrameOf(EvEnd), FrameOf(EvDone) >>,
     frames |-> MaxFrames + 1, cuts |-> FALSE, log |-> FALSE]
GraceInit == Init0 /\ producer = GraceProducer
GraceSpec == GraceInit /\ [][NextLater]_vars

\* ------------------------------------ SwiggyAPIClient.makeRequest (server)
maxRetries == 3
\* Math.pow(backoffFactor, retryCount) * 1000 for backoffFactor = 1.5
WaitMs(retryCount) == IF retryCount = 1 THEN 1500 ELSE 2250
UrlSearch == "https://www.swiggy.com/dapi/restaurants/search/v3?str=pizza"
UrlMenu == "https://www.swiggy.com/dapi/menu/pl?restaurantId=1"
\* url.indexOf('/search/v3') > 0
IsSearch(url) == url = UrlSearch

\* What axios.get can do: throw (no response, or a status outside 2xx), or
\* give a response with a 2xx status and the decoded body.
Thrown(message) == [kind |-> "throw", message |-> message]
Response(status, data) == [kind |-> "response", status |-> status, data |-> data]
Outcomes ==
    { Thrown("Network Error"),
      Thrown("Request failed with status code 500"),
      Response(204, [js |-> ""]),
      Response(200, [statusCode |-> 0, data |-> "cards"]),
      Response(200, [data |-> "cards"]),
      Response(200, [statusCode |-> 1, statusMessage |-> "No results"]),
      Response(200, [statusCode |-> 5]),
      Response(200, Null) }

\* return value: the call is over.
Return(r, value) == [r EXCEPT !.pc = "returned", !.result = value]
\* retryCount++; await the backoff; continue
Retry(r) ==
    [r EXCEPT !.retryCount = @ + 1, !.pc = "waiting",
              !.waits = Append(@, WaitMs(r.retryCount + 1))]
\* if (response.status !== 200)
OnStatus(r, status) ==
    IF r.retryCount < maxRetries - 1 THEN Retry(r)
    ELSE Return(r, [error |-> "API returned status code " \o ToString(status),
                    message |-> "Failed to fetch data from Swiggy API"])
\* catch (e)
OnCatch(r, message) ==
    IF r.retryCount < maxRetries - 1 THEN Retry(r)
    ELSE Return(r, [error |-> "Network error: " \o message,
                    message |-> "Failed to connect to Swiggy API"])
\* The check for API-level errors on the body of a 200 response.
OnData(r, data) ==
    IF "statusCode" \in DOMAIN data /\ data.statusCode # 0
    THEN IF IsSearch(r.url) /\ data.statusCode = 1
         THEN Return(r, [error |-> OrS(GetS(data, "statusMessage"), "Unknown API error"),
                         status_code |-> data.statusCode,
                         needs_fallback |-> TRUE])
         ELSE Return(r, [error |-> OrS(GetS(data, "statusMessage"), "Unknown API error"),
                         status_code |-> data.statusCode])
    ELSE Return(r, data)
\* One pass of the while loop.  Reading data.statusCode of a null body is a
\* TypeError inside the try.
AfterAttempt(r, outcome) ==
    IF outcome.kind = "throw" THEN OnCatch(r, outcome.message)
    ELSE IF outcome.status # 200 THEN OnStatus(r, outcome.status)
    ELSE IF outcome.data = Null
         THEN OnCatch(r, "Cannot read properties of null (reading 'statusCode')")
         ELSE OnData(r, outcome.data)

hookVars == << isLoading, thinking, toolExecution, toolHistory, processCollapsed,
               messages, messageToolHistory, conversationId, error,
               turn, timers, nextId, nextMessageId, net, producer, obs >>

\* makeRequest(url) is called.
MakeRequest ==
    /\ request.pc \in {"idle", "returned"}
    /\ request.calls < MaxTurns
    /\ \E url \in {UrlSearch, UrlMenu} :
          request' = [NoRequest EXCEPT !.pc = "requesting", !.url = url,
                                       !.calls = request.calls + 1]
    /\ UNCHANGED hookVars
\* while (retryCount < maxRetries) { try { await axios.get(url) ... } }
Attempt ==
    /\ request.pc = "requesting"
    /\ \E outcome \in Outcomes :
          request' =
              IF request.retryCount < maxRetries
              THEN AfterAttempt([request EXCEPT !.attempts = Append(@, outcome)],
                                outcome)
              ELSE Return(request, [error |-> "Unexpected error in request handling"])
    /\ UNCHANGED hookVars
\* The timeout of the backoff resolves.
Backoff ==
    /\ request.pc = "waiting"
    /\ request' = [request EXCEPT !.pc = "requesting"]
    /\ UNCHANGED hookVars

NextRequest ==
    \/ MakeRequest
    \/ Attempt
    \/ Backoff
RequestInit == Init0 /\ producer = ToolProducer
RequestSpec == RequestInit /\ [][NextRequest]_vars

\* ================================================================ claims
\* The timeline of the turn in flight, and helpers of the properties.
Timeline == turn.currentToolHistory
Ids(h) == [i \in 1..Len(h) |-> GetId(h[i])]
Settled(r) == r.status \in {"completed", "error"}
\* The appends of assistant and error messages made for turn n.
AppendedFor(n) == SelectSeq(obs.appended, LAMBDA a : a.turn = n)
\* The turn has text, an item or a step for its message.
Accumulated ==
    \/ turn.responseText # ""
    \/ turn.structuredDataItems # << >>
    \/ turn.reasoningSteps # << >>

\* ------------------------------------------------------------------- C1
\* C1, as stated: at every point of a turn the ids of the records of its
\* timeline, in order, are the ids given to the records of its agent_action
\* and tool_start events, in stream order.
C1_TimelineIsStartOrder ==
    turn.pc = "reading" => Ids(Timeline) = turn.startLog

\* C1, amended: the records made by the agent_action and tool_start events
\* of the turn are the last records of its timeline, one per event, in stream
\* order.  What precedes them is what the call found in toolHistory, in its
\* order, or, when it found nothing, at most one record without id that a
\* tool_error made on the empty timeline.  No tool_end or tool_error moves,
\* removes or precedes a record of a start.
C1_StartsKeepStreamOrder ==
    turn.pc = "reading" =>
      LET h == Timeline
          c == turn.clo.toolHistory
          pre == Len(h) - Len(turn.startLog)
      IN  /\ pre >= 0
          /\ Ids(SubSeq(h, pre + 1, Len(h))) = turn.startLog
          /\ \A i \in 1..Len(turn.startLog) : turn.startLog[i] >= turn.firstId
          /\ \A i \in 1..(Len(turn.startLog) - 1) :
                turn.startLog[i] < turn.startLog[i + 1]
          /\ IF Len(c) > 0
             THEN pre = Len(c) /\ Ids(SubSeq(h, 1, pre)) = Ids(c)
             ELSE /\ pre <= 1
                  /\ pre = 1 => "id" \notin DOMAIN h[1]

\* Two starts in stream order and a tool_end between them.
C1_Witness ==
    /\ turn.pc = "reading"
    /\ Len(turn.startLog) = 2
    /\ Len(Timeline) = 2
    /\ Timeline[1].status = "completed"
    /\ Timeline[1].toolName = "search_restaurants"
    /\ Timeline[2].status = "started"
    /\ Timeline[2].toolName = "get_restaurant_menu"

\* ------------------------------------------------------------------- C2
\* C2: while a turn reads its stream, a record of its timeline whose status
\* is completed or error stays in its place, unchanged.
C2_SettledRecordsAreFinal ==
    [][ (turn.pc = "reading" /\ turn'.pc = "reading") =>
          \A i \in 1..Len(Timeline) :
             Settled(Timeline[i]) =>
                /\ Len(turn'.currentToolHistory) >= i
                /\ turn'.currentToolHistory[i] = Timeline[i] ]_vars

\* ------------------------------------------------------------------- C3
\* The events of the text as one chunk: every data line decoded, in order.
RECURSIVE DecodeAll(_)
DecodeAll(lines) ==
    IF Len(lines) = 0 THEN << >>
    ELSE (IF Parses(Head(lines)) THEN << JSONParse(Head(lines)) >> ELSE << >>)
         \o DecodeAll(Tail(lines))

\* C3: whenever the chunks delivered so far end at a line end, the events
\* decoded from them are the events of the same text delivered as one chunk.
C3_ChunkingIndependent ==
    (turn.pc = "reading" /\ net.tail = << >>) =>
       turn.decoded = DecodeAll(DataLines(net.wire))

\* ------------------------------------------------------------------- C4
\* C4: a chunk with data lines that are no JSON leaves the turn, the timeline
\* and the session state as the same chunk without those lines does, appends
\* no message and leaves the turn reading.
C4_BadLineSkipped ==
    [][ (turn.pc = "reading" /\ net'.frames > net.frames) =>
          LET good == SelectSeq(obs'.lastChunk, Parses)
          IN  /\ StateOf' = ProcessLines(good, turn.clo, StateOf)
              /\ turn'.pc = "reading"
              /\ turn'.outcome = "none"
              /\ messages' = messages
              /\ error' = error
              /\ isLoading' = isLoading ]_vars

\* A turn that read a line that is no JSON and then a message in one chunk,
\* and ended with its assistant message.
C4_Witness ==
    /\ turn.outcome = "ended"
    /\ Len(obs.lastChunk) = 2
    /\ ~Parses(obs.lastChunk[1])
    /\ Parses(obs.lastChunk[2])
    /\ turn.responseText = "Here you go"
    /\ Len(AppendedFor(turn.no)) = 1
    /\ ~AppendedFor(turn.no)[1].error

\* ------------------------------------------------------------------- C5
\* C5: the step that ends a stream appends one assistant message, with the
\* text, items and steps of the turn, when the turn has text, an item or a
\* step, and appends nothing otherwise.
C5_MessageIffAccumulated ==
    [][ (turn.pc = "reading" /\ turn'.pc = "idle" /\ turn'.outcome = "ended") =>
          IF Accumulated
          THEN /\ Len(messages') = Len(messages) + 1
               /\ Last(messages').isUser = FALSE
               /\ "error" \notin DOMAIN Last(messages')
               /\ Last(messages').text = turn.responseText
               /\ Last(messages').reasoningSteps = turn.reasoningSteps
               /\ Len(Last(messages').structuredData) = Len(turn.structuredDataItems)
               /\ Len(AppendedFor(turn.no)') = 1
          ELSE /\ messages' = messages
               /\ obs'.appended = obs.appended ]_vars

\* A turn without text that ended with a message for its item.
C5_Witness ==
    /\ turn.outcome = "ended"
    /\ turn.responseText = ""
    /\ Len(turn.structuredDataItems) = 1
    /\ turn.reasoningSteps = << >>
    /\ Len(AppendedFor(turn.no)) = 1
    /\ Len(messages) > 0
    /\ Last(messages).structuredData = << [type |-> "restaurant",
                                           data |-> [name |-> "Pizza Hut",
                                                     rating |-> "4.2"]] >>

\* ------------------------------------------------------------------- C6
\* C6: a turn that failed in its transport (fetch rejected, response not ok,
\* read rejected) has exactly one message appended for it, an error message,
\* and one request issued.
C6_OneErrorMessage ==
    turn.outcome = "failed" =>
       /\ Len(AppendedFor(turn.no)) = 1
       /\ AppendedFor(turn.no)[1].error
       /\ obs.requests[turn.no] = 1
       /\ turn.pc = "idle"
       /\ ~isLoading

\* A read that failed after the turn had text for a message.
C6_Witness ==
    /\ turn.outcome = "failed"
    /\ turn.responseText = "Here you go"
    /\ Len(messages) > 0
    /\ "error" \in DOMAIN Last(messages)

\* ------------------------------------------------------------------- C7
\* C7: a turn whose events are agent_action (search_restaurants, query
\* pizza), tool_end (3 results), message, done ends with a message of that
\* text whose tool history is one completed record of search_restaurants
\* with the completion message of the search.
C7_ScenarioA ==
    (turn.outcome = "ended"
       /\ turn.decoded = << EvAction, EvEnd, EvMessage, EvDone >>) =>
       /\ Len(messages) > 0
       /\ Last(messages).text = "Here you go"
       /\ Last(messages).id \in DOMAIN messageToolHistory
       /\ LET h == messageToolHistory[Last(messages).id]
          IN  /\ Len(h) = 1
              /\ h[1].toolName = "search_restaurants"
              /\ h[1].status = "completed"
              /\ h[1].data = "Found 3 restaurants matching \"pizza\""

\* ------------------------------------------------------------------- C8
\* The turn began with a tool_error that names no tool, on an empty timeline.
ErrorFirst ==
    /\ turn.pc = "reading" \/ turn.outcome \in {"ended", "threw"}
    /\ Len(turn.decoded) > 0
    /\ turn.decoded[1] = EvError
    /\ turn.clo.toolHistory = << >>

\* C8, as stated: such a turn, once its stream has ended, has an assistant
\* message.
C8_ErrorTurnHasMessage ==
    (ErrorFirst /\ turn.outcome = "ended") =>
       /\ Len(AppendedFor(turn.no)) = 1
       /\ ~AppendedFor(turn.no)[1].error

\* C8, amended: such a turn has a first timeline record without id, named
\* Unknown Tool, in error as long as no later event rewrote it; nothing is
\* thrown; and when its stream ends, the turn appends its assistant message,
\* with the timeline as its tool history, exactly when it has text, an item
\* or a step.
C8_StandaloneErrorRecord ==
    ErrorFirst =>
       /\ Len(Timeline) > 0
       /\ Timeline[1].toolName = "Unknown Tool"
       /\ "id" \notin DOMAIN Timeline[1]
       /\ Len(turn.decoded) = 1 => Timeline[1].status = "error"
       /\ turn.outcome # "threw"
       /\ turn.outcome = "ended" =>
             IF Accumulated
             THEN /\ Len(AppendedFor(turn.no)) = 1
                  /\ ~AppendedFor(turn.no)[1].error
                  /\ messageToolHistory[AppendedFor(turn.no)[1].id] = Timeline
             ELSE AppendedFor(turn.no) = << >>

\* The error, then a message: the turn ended with a message whose tool
\* history is the standalone record.
C8_Witness ==
    /\ ErrorFirst
    /\ turn.outcome = "ended"
    /\ turn.decoded = << EvError, EvMessage >>
    /\ Len(AppendedFor(turn.no)) = 1
    /\ messageToolHistory[AppendedFor(turn.no)[1].id] =
          << [toolName |-> "Unknown Tool", status |-> "error",
              error |-> "boom", output |-> Undef] >>

\* ------------------------------------------------------------------- C9
\* C9: after clearMessages was called with a turn in flight, no message of
\* that turn is appended and the message list stays empty until the next
\* sendMessage.
C9_ClearAbortsTurn ==
    turn.cleared => (messages = << >> /\ AppendedFor(turn.no) = << >>)

\* ------------------------------------------------------------------ C10
\* C10: a done event met with a live record that is completed or in error
\* sets the grace timer and leaves the overlay; a done event met with no live
\* record clears the overlay and collapses the timeline at once.
C10_DoneGracePeriod ==
    \A i \in 1..Len(turn.doneLog) :
       LET d == turn.doneLog[i]
       IN  /\ GetS(d.before, "status") \in {"completed", "error"} =>
                (d.timerSet /\ d.after = d.before)
           /\ d.before = Null =>
                (~d.timerSet /\ d.after = Null /\ d.collapsed)

\* ------------------------------------------------------------------ C11
\* C11, as stated: in no step does a conversation id that is assigned become
\* absent.
C11_IdNeverReverts ==
    [][ conversationId # NONE => conversationId' # NONE ]_vars

\* C11, amended: a conversation id that is assigned becomes absent only in a
\* call of clearMessages, or when loadConversation receives a conversation
\* that holds no session_id.  No step of a sendMessage turn (a done event
\* with or without conversation_id included), no timer and no failed load
\* makes it absent.
C11_IdRevertsOnlyByClearOrLoad ==
    [][ (conversationId # NONE /\ conversationId' = NONE) =>
          \/ ClearMessages
          \/ (LoadOk /\ "session_id" \notin DOMAIN obs'.lastLoad) ]_vars

\* The second turn read a done event without conversation_id and the id
\* assigned by the first turn is still there.
C11_Witness ==
    /\ conversationId = "c1"
    /\ turn.no = 2
    /\ turn.outcome = "ended"
    /\ Len(turn.doneLog) = 1
    /\ turn.doneLog[1].id = NONE

\* ------------------------------------------------------------------ C12
\* The persisted messages of a conversation object.
Persisted(conversation) ==
    IF "messages" \in DOMAIN conversation THEN conversation.messages ELSE << >>
Reorderings(n) ==
    { f \in [1..n -> 1..n] : \A i, j \in 1..n : f[i] = f[j] => i = j }

RenderedParts == obs.render.parts
RenderedText == Lex(obs.render.text)
BodyOf(span) == MatchAt(span, 1).jsonText

\* C13 (as stated): a card whose body passes the strict JSON parse was made by
\* that parse alone, no later stage attempted, and its data is the result of
\* that parse.
C13_Stage1ResultIsCardData ==
    \A i \in DOMAIN RenderedParts :
        LET part == RenderedParts[i]
        IN  (part.type = "card" /\ JSONParseObject(BodyOf(part.span)).ok) =>
                /\ part.stages = << 1 >>
                /\ part.cardData = JSONParseObject(BodyOf(part.span)).o

\* C14 (as stated): the text ':::type{ strict JSON of data }:::' of an object
\* with a type and plain data is parsed into one card with that type and with
\* data equal to the object's, strings that look like arrays staying strings.
C14_CardRoundTrip ==
    \A O \in CardObjects :
        RenderedText = Encode(O) =>
            /\ Len(RenderedParts) = 1
            /\ RenderedParts[1].type = "card"
            /\ RenderedParts[1].cardType = O.type
            /\ RenderedParts[1].cardData = ObjectOf(O.data)

\* A text that is one card: marker, card type, a body that brace counting
\* closes at the last brace, marker.
OneCard(toks) ==
    /\ Len(toks) >= 5
    /\ ColonOpen(toks, 1)
    /\ toks[3].c = "{"
    /\ Closer(toks, 3) = Len(toks) - 1
    /\ toks[Len(toks)].c = "colons"

\* C15 (as stated): the body of a card, with braces nested to any depth, is
\* extracted whole, from its opening brace to the brace that closes it.
C15_BalancedBodyExtracted ==
    OneCard(RenderedText) =>
        /\ Len(RenderedParts) = 1
        /\ RenderedParts[1].type = "card"
        /\ BodyOf(RenderedParts[1].span)
             = SubSeq(RenderedText, 3, Len(RenderedText) - 1)

\* The pieces a part stands for: its content, or the span matched as a card.
SpanOf(part) == IF part.type = "card" THEN part.span ELSE part.content
RECURSIVE Spans(_)
Spans(parts) ==
    IF parts = << >> THEN << >> ELSE SpanOf(parts[1]) \o Spans(Tail(parts))

\* C17: the parts of a rendered text, taken in order, are the text itself, each
\* piece once: nothing matched is lost.  A match whose staged parse leaves no
\* key is a text part holding exactly the matched fragment; every other match
\* is a card with keys.
C17_PartsCoverText ==
    obs.render.text # NONE =>
        /\ Spans(RenderedParts) = RenderedText
        /\ \A i \in DOMAIN RenderedParts :
               LET part == RenderedParts[i]
               IN  /\ (part.type = "text" /\ part.candidate) =>
                          /\ MatchAt(part.content, 1).ok
                          /\ MatchAt(part.content, 1).last = Len(part.content)
                          /\ ArraysFromStrings(
                                 ParseStages(BodyOf(part.content)).o) = NoKeys
                   /\ (part.type = "text" /\ ~part.candidate) =>
                          Exec(part.content, 1) = 0
                   /\ part.type = "card" => DOMAIN part.cardData # {}

\* An empty body and a body no stage can read, with prose between them, have
\* been rendered as three text parts.
C17_Witness ==
    /\ obs.render.text = TextEmpty
    /\ Len(RenderedParts) = 3
    /\ RenderedParts[1].type = "text" /\ RenderedParts[1].candidate
    /\ RenderedParts[2].type = "text" /\ ~RenderedParts[2].candidate
    /\ RenderedParts[3].type = "text" /\ RenderedParts[3].candidate
    /\ ParseStages(BodyOf(RenderedParts[3].content)).stages = << 1, 2, 3, 4 >>

\* The rule list of the type inference, in its order: what a payload must look
\* like, and the item the rule makes of it.  A field is given when it is there
\* with a value that counts as true, present when it is there at all.
Given(p, k) == k \in DOMAIN p /\ (k \in {"data", "restaurant", "food_item"} \/ p[k] \notin {"", NONE})
Present(p, k) == k \in DOMAIN p
Typed(type, data) == [type |-> type, data |-> data]
RuleShape(n, p) ==
    CASE n = 1 -> Given(p, "type") /\ Given(p, "data")
      [] n = 2 -> \/ Present(p, "verification_score")
                  \/ Present(p, "verification_status")
                  \/ (Present(p, "recommendation") /\ Present(p, "flagged_issues"))
      [] n = 3 -> /\ (Given(p, "workflow_id") \/ Given(p, "current_state"))
                  /\ \/ Present(p, "current_stage")
                     \/ /\ Present(p, "stage")
                        /\ (Present(p, "order_id") \/ Given(p, "reason_category"))
      [] n = 4 -> Given(p, "name") /\ (Given(p, "cuisine") \/ Given(p, "rating"))
      [] n = 5 -> Given(p, "name") /\ (Given(p, "price") \/ Given(p, "description"))
      [] n = 6 -> Given(p, "restaurant")
      [] n = 7 -> Given(p, "food_item")
      [] n = 8 -> Present(p, "rating") \/ Present(p, "cuisine")
      [] n = 9 -> Present(p, "price")
RuleItem(n, p) ==
    CASE n = 1 -> p
      [] n = 2 -> Typed("image_verification_result", p)
      [] n = 3 -> Typed("refund_workflow_state", p)
      [] n = 4 -> Typed("restaurant", p)
      [] n = 5 -> Typed("food_item", p)
      [] n = 6 -> Typed("restaurant", p.restaurant)
      [] n = 7 -> Typed("food_item", p.food_item)
      [] n = 8 -> Typed("restaurant", p)
      [] n = 9 -> Typed("food_item", p)
Matching(p) == { n \in 1..9 : RuleShape(n, p) }
Inferred(p) ==
    IF Matching(p) = {} THEN p
    ELSE RuleItem(CHOOSE n \in Matching(p) : \A k \in Matching(p) : n <= k, p)

\* The payloads of the structured_data events decoded so far in the turn.
PayloadsDecoded ==
    LET evs == SelectSeq(turn.decoded,
                         LAMBDA d : GetS(d, "type") = "structured_data"
                                    /\ "data" \in DOMAIN d)
    IN  [i \in 1..Len(evs) |-> evs[i].data]

RECURSIVE OpenAfter(_)
OpenAfter(events) ==
    IF events = << >> THEN 0
    ELSE LET before == OpenAfter(SubSeq(events, 1, Len(events) - 1))
             type == GetS(events[Len(events)], "type")
         IN  CASE type \in {"agent_action", "tool_start"} -> before + 1
               [] type \in {"tool_end", "tool_error"} ->
                      IF before > 0 THEN before - 1 ELSE 0
               [] OTHER -> before
StartedIn(h) == { i \in 1..Len(h) : h[i].status = "started" }

\* C18 (as stated): in a turn that began on an empty timeline, the records
\* still started are those that most-recent-unterminated correlation leaves
\* open; after two starts and two tool_end events none is.
C18_EndSettlesMostRecentOpen ==
    (turn.no > 0 /\ turn.clo.toolHistory = << >>) =>
        Cardinality(StartedIn(Timeline)) = OpenAfter(turn.decoded)

\* ------------------------------------------------------------------ C19
\* C19 (as stated): once a tool_end has been handled in a turn, the timeline
\* of the turn holds a record, whether or not one was open when it arrived.
C19_EndAlwaysLeavesRecord ==
    (\E i \in 1..Len(turn.decoded) : GetS(turn.decoded[i], "type") = "tool_end") =>
        Len(Timeline) > 0

\* ------------------------------------------------------------------ C20
\* C20 (as stated): every turn starts with an empty timeline, and the tool
\* history attached to a message holds only records created in its own turn.
C20_TurnStartsWithEmptyTimeline ==
    /\ turn.no > 0 => turn.clo.toolHistory = << >>
    /\ \A i \in 1..Len(messages) :
           ("id" \in DOMAIN messages[i]
              /\ messages[i].id \in DOMAIN messageToolHistory
              /\ messages[i].turn = turn.no) =>
               \A k \in 1..Len(messageToolHistory[messages[i].id]) :
                   GetId(messageToolHistory[messages[i].id][k]) >= turn.firstId

\* ------------------------------------------------------------------ C21
\* A done event has been handled in the turn.
DoneSeen ==
    \E i \in 1..Len(turn.decoded) : GetS(turn.decoded[i], "type") = "done"

\* C21 (as stated): once a done event has been handled in a turn, nothing that
\* follows it in the stream changes the text, the reasoning steps, the
\* structured items or the timeline of the turn.
C21_NothingConsumedAfterDone ==
    [][ (DoneSeen /\ turn'.no = turn.no) =>
          /\ turn'.responseText = turn.responseText
          /\ turn'.reasoningSteps = turn.reasoningSteps
          /\ turn'.structuredDataItems = turn.structuredDataItems
          /\ turn'.currentToolHistory = turn.currentToolHistory ]_vars

\* ------------------------------------------------------------------ C22
\* The list is the one a load has put there, and a turn is in flight: the load
\* completed during the turn (sendMessage appends the user message first).
LoadedInFlight ==
    /\ turn.pc # "idle"
    /\ ~net.load
    /\ "messages" \in DOMAIN obs.lastLoad
    /\ messages = appMessages(obs.lastLoad.messages)

\* C22 (as stated): a turn in flight when a conversation is loaded leaves the
\* loaded list as it is when it completes: no assistant or error message of
\* that turn is added to it.
C22_LoadNotMergedWithTurn ==
    [][ (LoadedInFlight /\ turn'.pc = "idle") => messages' = messages ]_vars

\* The formal events of the turn that open a record, and the reasoning steps
\* that announce one.
IsFormalStart(ev) ==
    /\ GetS(ev, "type") \in {"agent_action", "tool_start"}
    /\ Truthy(GetS(ev, "tool_name"))
IsMarkerStep(ev) ==
    /\ GetS(ev, "type") = "reasoning_step"
    /\ Truthy(ThoughtToolName(ev.data.thought))
FormalStarts == {i \in 1..Len(turn.decoded) : IsFormalStart(turn.decoded[i])}
MarkerSteps == {i \in 1..Len(turn.decoded) : IsMarkerStep(turn.decoded[i])}
\* A formal start has been processed since the last preliminary record.
FormalFollows ==
    /\ FormalStarts # {}
    /\ \A i \in MarkerSteps : \E j \in FormalStarts : j > i

\* C23: in a turn begun on an empty timeline, once a formal agent_action or
\* tool_start has followed the reasoning steps that announced a tool, the
\* turn's timeline holds one record per formal start, and the live timeline
\* is that same list: the preliminary record is not kept next to the formal
\* one.
C23_PreliminaryNotDuplicated ==
    (turn.pc = "reading" /\ turn.clo.toolHistory = << >> /\ FormalFollows) =>
        /\ Len(turn.currentToolHistory) = Cardinality(FormalStarts)
        /\ toolHistory = turn.currentToolHistory
C23_Witness ==
    /\ turn.pc = "reading"
    /\ turn.clo.toolHistory = << >>
    /\ turn.decoded = << EvStep, EvActionMenu >>
    /\ Len(toolHistory) = 1
    /\ toolHistory[1].toolName = "get_restaurant_menu"
    /\ toolHistory = turn.currentToolHistory

\* C24: every item in the structuredData of an appended assistant message
\* is a card with a type tag and a data payload.
C24_OnlyTypedItemsSurfaced ==
    \A i \in 1..Len(messages) :
        "structuredData" \in DOMAIN messages[i] =>
            \A k \in 1..Len(messages[i].structuredData) :
                /\ Has(messages[i].structuredData[k], "type")
                /\ Has(messages[i].structuredData[k], "data")

\* The item of the rendered message behind element k, and its array.
CardItem(k) == messages[obs.cards.of].structuredData[k]
CardItems(k) ==
    IF "data" \in DOMAIN CardItem(k) THEN ItemsOf(CardItem(k).data) ELSE << >>
\* C25: in the rendering of a payload that is an array or carries a results
\* array, every element that renders on its own is rendered in the list,
\* whatever the other elements are.
C25_ElementsRenderedIndependently ==
    \A k \in 1..Len(obs.cards.elements) :
        \A j \in 1..Len(CardItems(k)) :
            (/\ ~Nullish(CardItems(k)[j])
             /\ RenderItem(CardItems(k)[j], NormalType(CardItem(k).type)) # Null)
            => /\ "list" \in DOMAIN obs.cards.elements[k]
               /\ obs.cards.elements[k].list[j] =
                      RenderItem(CardItems(k)[j], NormalType(CardItem(k).type))

\* C26: under sendMessage the list only grows at its end, by one message a
\* step: the user message where a turn starts, together with the request,
\* and a message that is not the user's only where the turn in flight comes
\* to its end, so at most one a turn; a send with blank text changes neither
\* the list nor the requests nor the turn.
C26_AppendOnlyHistory ==
    [][ /\ Len(messages') \in {Len(messages), Len(messages) + 1}
        /\ SubSeq(messages', 1, Len(messages)) = messages
        /\ turn'.no # turn.no =>
              /\ Len(messages') = Len(messages) + 1
              /\ Last(messages').isUser
              /\ Len(obs'.requests) = Len(obs.requests) + 1
        /\ (turn'.no = turn.no /\ Len(messages') = Len(messages) + 1) =>
              /\ ~Last(messages').isUser
              /\ turn.pc # "idle" /\ turn'.pc = "idle"
        /\ Len(obs'.requests) # Len(obs.requests) => turn'.no # turn.no
        /\ obs'.blank # obs.blank =>
              /\ messages' = messages
              /\ obs'.requests = obs.requests
              /\ turn' = turn ]_vars
C26_Witness ==
    /\ obs.blank > 0
    /\ turn.no = MaxTurns /\ turn.pc = "idle"
    /\ Len(messages) = 2 * MaxTurns - 1
    /\ Len(obs.requests) = MaxTurns

\* The timers set by the done events of the turn in flight; the others
\* pending are from earlier turns.
TimersOfTurn ==
    Cardinality({i \in 1..Len(turn.doneLog) : turn.doneLog[i].timerSet})
\* The live execution is a record made by the turn in flight.
LiveOfTurn ==
    /\ turn.pc = "reading"
    /\ toolExecution # Null
    /\ GetId(toolExecution) >= turn.firstId
\* C27: when a grace timer fires that an earlier turn's done event set, the
\* live execution made by the turn in flight stays, and its timeline is not
\* collapsed.
C27_TimerSparesLaterTurn ==
    [][ (timers' < timers /\ TimersOfTurn = 0 /\ LiveOfTurn) =>
            /\ toolExecution' = toolExecution
            /\ processCollapsed' = processCollapsed ]_vars

\* C28: after every processed event of a turn the live timeline is the turn's
\* own timeline, and the live execution, when there is one, is a record of
\* it.
C28_LiveTimelineIsTurnTimeline ==
    (turn.pc = "reading" /\ Len(turn.decoded) > 0) =>
        /\ toolHistory = turn.currentToolHistory
        /\ toolExecution # Null =>
              \E i \in 1..Len(toolHistory) :
                  GetId(toolHistory[i]) = GetId(toolExecution)

\* C29: makeRequest makes at most maxRetries HTTP attempts and ends with a
\* returned value; every attempt that another one follows got a status
\* other than 200 or a thrown error of the HTTP client, and never a 200
\* response.
C29_BoundedRetriesOnTransportFailure ==
    /\ Len(request.attempts) <= maxRetries
    /\ request.pc = "returned" => request.result # Undef
    /\ \A i \in 1..(Len(request.attempts) - 1) :
          \/ request.attempts[i].kind = "throw"
          \/ request.attempts[i].status # 200
    /\ request.pc = "waiting" =>
          \/ Last(request.attempts).kind = "throw"
          \/ Last(request.attempts).status # 200

\* The error a failing loadConversation sets; LoadStart clears the error and
\* nothing else sets this one.
LoadError == "Failed to load conversation: Failed to fetch"
\* C30: neither the start of a loadConversation call nor its failure changes
\* the message list or the conversation id; the failure sets the error and
\* isLoading to false, and nothing else of the hook's state.
C30_FailedLoadKeepsSession ==
    [][ /\ (~net.load /\ net'.load) =>
              /\ messages' = messages
              /\ conversationId' = conversationId
        /\ (net.load /\ ~net'.load /\ error' = LoadError) =>
              /\ messages' = messages
              /\ conversationId' = conversationId
              /\ isLoading' = FALSE
              /\ UNCHANGED << thinking, toolExecution, toolHistory,
                              processCollapsed, messageToolHistory, turn >> ]_vars
C30_Witness ==
    /\ error = LoadError
    /\ ~net.load
    /\ ~isLoading
    /\ Len(messages) > 1
    /\ conversationId # NONE
    /\ obs.lastLoad = Null

====
